---- MODULE Spec2Model ----
(***************************************************************************)
(* Billing core of the POS backend (backend/services, backend/routes).     *)
(*                                                                         *)
(* The repository holds two storage services with the same method names:   *)
(*   SQLiteDatabaseService (services/sqlite_db_service.py), the one the    *)
(*     billing, products and settings routes construct, over the file      *)
(*     data/products.db;                                                   *)
(*   DatabaseService (services/db_service.py), the SQLAlchemy service the  *)
(*     inventory, categories and summary routes construct, over the        *)
(*     PostgreSQL database of config.py.                                   *)
(* The two databases never share rows.  A behaviour of this model          *)
(* exercises one of the two services; svc records which one.               *)
(*                                                                         *)
(* Spec runs every handler to completion, one after another.  SpecConc     *)
(* runs concurrent create requests one database statement at a time.       *)
(*                                                                         *)
(* Time is a counter of half days.  SQLite's CURRENT_TIMESTAMP is UTC and  *)
(* the code reads it back with and without 'localtime'; tz is the host's   *)
(* offset from UTC in half days (0: a UTC host, 1: a host east of UTC).    *)
(* Python's datetime.now()/date.today() are local time throughout.         *)
(***************************************************************************)
EXTENDS Integers, Sequences, FiniteSets, TLC

\* ------------------------------------------------------------------ bounds
MaxTick == 2      \* the clock runs over the instants 0..MaxTick
MaxBills == 2     \* bills inserted in one behaviour
MaxReqs == 2      \* create requests that run concurrently

\* ------------------------------------------------------------ input domains
ProductIds == {"A1", "B2"}
\* None where a row (a record) is expected, and a NULL column or absent value
NoRow == [none |-> TRUE]
Null == "NULL"
NoDate == 0 - 1

\* request bodies of POST /api/bill/create: lists of {product_id, quantity}
Item(p, q) == [product_id |-> p, quantity |-> q]
ValidItemLists == { <<Item("A1", 2)>>, <<Item("B2", 1), Item("A1", 2)>> }
ItemLists == ValidItemLists \cup { <<>>, <<Item("A1", 0)>>, <<Item("Z9", 1)>> }

VARIABLES
    now,          \* the current instant
    tz,           \* host offset from UTC, fixed at start
    svc,          \* "sqlite" or "sqlalchemy": the service this behaviour exercises
    settings,     \* SQLite settings table: key -> row or NoRow
    products,     \* SQLite products table: product_id -> row or NoRow
    bills,        \* SQLite bills table, rows in rowid order
    pg_settings,  \* SQLAlchemy Settings: key -> row or NoRow
    pg_products,  \* SQLAlchemy Product: product_id -> row or NoRow
    pg_bills,     \* SQLAlchemy Bill rows in id order
    inventory,    \* SQLAlchemy Inventory: id -> row or NoRow
    issued,       \* how many bills this behaviour has inserted (bounds the run)
    req,          \* the create requests in flight: request id -> its local state
    pg_product_cat, \* SQLAlchemy Product columns category_id and category
    categories,   \* SQLAlchemy Category: id -> row or NoRow
    inv_req,      \* the inventory request in flight, and the last answer
    pending       \* a validated bill_data not yet handed to create_bill, or NoRow

vars == <<now, tz, svc, settings, products, bills,
          pg_settings, pg_products, pg_bills, inventory, issued, req,
          pg_product_cat, categories, inv_req, pending>>

\* the state only the inventory and category requests use
ledger_vars == <<pg_product_cat, categories, inv_req, pending>>

\* ---------------------------------------------------------------- calendar
\* date(created_at) in SQLite: the UTC calendar day of a stored timestamp
utc_date(t) == t \div 2
\* date(created_at, 'localtime'), date('now', 'localtime'), date.today()
local_date(t) == (t + tz) \div 2

Min(S) == CHOOSE x \in S : \A y \in S : x <= y
Max(S) == CHOOSE x \in S : \A y \in S : x >= y

RECURSIVE SumSeq(_)
SumSeq(s) == IF s = <<>> THEN 0 ELSE Head(s) + SumSeq(Tail(s))

\* ====================================================================
\* SQLiteDatabaseService (services/sqlite_db_service.py)
\* ====================================================================

\* SELECT ... FROM products [WHERE p.active = 1]: the ids of the rows returned
SQLite_get_all_products(include_inactive) ==
    {p \in DOMAIN products :
        products[p] # NoRow /\ (include_inactive \/ products[p].active)}

\* SELECT ... WHERE p.product_id = ?: the row, or NoRow for None
SQLite_get_product(product_id) ==
    IF product_id \in DOMAIN products THEN products[product_id] ELSE NoRow

\* settings row 'bill_reset_daily': row['value'] == 'true' if row else True
SQLite_reset_daily ==
    IF settings["bill_reset_daily"] # NoRow
    THEN settings["bill_reset_daily"].value = "true"
    ELSE TRUE

\* the rows of today, by date(created_at, 'localtime') = date('now', 'localtime')
SQLite_today_rows(t) ==
    {i \in DOMAIN bills : local_date(bills[i].created_at) = local_date(t)}

\* a numbering that ignores the setting and always scopes by today
SQLite_next_bill_no_daily(t) ==
    Max({bills[i].bill_no : i \in SQLite_today_rows(t)} \cup {0}) + 1

\* SELECT COALESCE(MAX(bill_no), 0) + 1 over today's rows, or over all rows
SQLite_next_bill_no(t) ==
    IF SQLite_reset_daily
    THEN Max({bills[i].bill_no : i \in SQLite_today_rows(t)} \cup {0}) + 1
    ELSE Max({bills[i].bill_no : i \in DOMAIN bills} \cup {0}) + 1

\* CREATE UNIQUE INDEX idx_daily_bill ON bills (bill_no, date(created_at)):
\* TRUE when a row (bill_no, t) may be inserted
SQLite_idx_daily_bill(bill_no, t) ==
    \A i \in DOMAIN bills :
        ~(bills[i].bill_no = bill_no
          /\ utc_date(bills[i].created_at) = utc_date(t))

\* the enrichment loop of create_bill/update_bill: the name is re-resolved,
\* price and quantity are the caller's
SQLite_enrich(items) ==
    [i \in DOMAIN items |->
        [product_id |-> items[i].product_id,
         name |-> IF SQLite_get_product(items[i].product_id) # NoRow
                  THEN SQLite_get_product(items[i].product_id).name
                  ELSE "Unknown Product",
         price |-> items[i].price,
         quantity |-> items[i].quantity]]

\* INSERT INTO bills (bill_no, customer_name, total_amount, items): status and
\* created_at take the column defaults 'CONFIRMED' and CURRENT_TIMESTAMP
SQLite_bill_row(bill_no, total_amount, enriched_items, t) ==
    [bill_no |-> bill_no,
     total_amount |-> total_amount,
     items |-> enriched_items,
     status |-> "CONFIRMED",
     created_at |-> t]

\* a lookup by number alone: the first row numbered bill_no of any day
SQLite_get_bill_any_day(bill_no, t) ==
    LET hits == {i \in DOMAIN bills : bills[i].bill_no = bill_no}
    IN  IF hits = {} THEN NoRow ELSE bills[Min(hits)]

\* get_bill: the first row numbered bill_no among today's rows, or NoRow
SQLite_get_bill(bill_no, t) ==
    LET hits == {i \in SQLite_today_rows(t) : bills[i].bill_no = bill_no}
    IN  IF hits = {} THEN NoRow ELSE bills[Min(hits)]

\* TRIM(status) != 'CANCELLED'
NotCancelled(row) == row.status # "CANCELLED"

\* get_todays_bills: today's rows that are not cancelled (row indexes)
SQLite_get_todays_bills(t) ==
    {i \in SQLite_today_rows(t) : NotCancelled(bills[i])}

\* get_bills_by_date_range(start, end): local date BETWEEN start AND end
SQLite_get_bills_by_date_range(start_date, end_date) ==
    {i \in DOMAIN bills :
        /\ local_date(bills[i].created_at) >= start_date
        /\ local_date(bills[i].created_at) <= end_date
        /\ NotCancelled(bills[i])}

\* get_all_bills: every row that is not cancelled
SQLite_get_all_bills == {i \in DOMAIN bills : NotCancelled(bills[i])}

\* get_all_bills_management: SELECT * FROM bills
SQLite_get_all_bills_management == DOMAIN bills

\* cancel_bill: UPDATE bills SET status = 'CANCELLED' WHERE bill_no = ?
SQLite_cancel_bill_rows(bill_no) ==
    {i \in DOMAIN bills : bills[i].bill_no = bill_no}

SQLite_cancel_bill(bill_no) ==
    [i \in DOMAIN bills |->
        IF i \in SQLite_cancel_bill_rows(bill_no)
        THEN [bills[i] EXCEPT !.status = "CANCELLED"]
        ELSE bills[i]]

\* update_bill: UPDATE bills SET total_amount, items
\*              WHERE bill_no = ? AND TRIM(status) != 'CANCELLED'
SQLite_update_bill_rows(bill_no) ==
    {i \in DOMAIN bills : bills[i].bill_no = bill_no /\ NotCancelled(bills[i])}

SQLite_update_bill(bill_no, bill_data) ==
    [i \in DOMAIN bills |->
        IF i \in SQLite_update_bill_rows(bill_no)
        THEN [bills[i] EXCEPT !.total_amount = bill_data.total_amount,
                              !.items = SQLite_enrich(bill_data.items)]
        ELSE bills[i]]

\* create_bill, run as one unit at instant t: [ok, bill_no, bills].  The
\* INSERT raises sqlite3.IntegrityError when idx_daily_bill rejects the row;
\* the method catches nothing, so the exception reaches the caller.
SQLite_create_bill(bill_data, t) ==
    LET next_bill_no == SQLite_next_bill_no(t)
    IN  IF SQLite_idx_daily_bill(next_bill_no, t)
        THEN [ok |-> TRUE, bill_no |-> next_bill_no,
              bills |-> Append(bills,
                  SQLite_bill_row(next_bill_no, bill_data.total_amount,
                                  SQLite_enrich(bill_data.items), t))]
        ELSE [ok |-> FALSE, bill_no |-> 0, bills |-> bills]

\* a clearing that deletes today's rows and keeps those of earlier days
SQLite_clear_todays_bills ==
    SelectSeq(bills, LAMBDA b : local_date(b.created_at) # local_date(now))

\* clear_all_bills: DELETE FROM bills, and the rowid sequence starts again
SQLite_clear_all_bills == <<>>

\* ====================================================================
\* routes/billing.py, over SQLiteDatabaseService (billing.py line 8)
\* ====================================================================

\* the checks on one element of data['products']: 0 when it passes
Route_item_error(product_data) ==
    IF product_data.quantity <= 0 THEN 400
    ELSE IF product_data.product_id \notin SQLite_get_all_products(FALSE) THEN 404
    ELSE 0

\* a validation that tests the product of each item and not its quantity
Route_validate_no_quantity(req_products) ==
    LET bad == {i \in DOMAIN req_products :
                    req_products[i].product_id \notin SQLite_get_all_products(FALSE)}
    IN  IF req_products = <<>> THEN 400
        ELSE IF bad = {} THEN 0
        ELSE 404

\* the validation of create_bill: the status of the first check that fails
Route_validate(req_products) ==
    LET bad == {i \in DOMAIN req_products :
                    Route_item_error(req_products[i]) # 0}
    IN  IF req_products = <<>> THEN 400
        ELSE IF bad = {} THEN 0
        ELSE Route_item_error(req_products[Min(bad)])

\* validated_products: name and price are the catalog's
Route_validated_products(req_products) ==
    [i \in DOMAIN req_products |->
        [product_id |-> req_products[i].product_id,
         name |-> products[req_products[i].product_id].name,
         price |-> products[req_products[i].product_id].price,
         quantity |-> req_products[i].quantity]]

\* total += price * quantity
LineTotals(items) == [i \in DOMAIN items |-> items[i].price * items[i].quantity]

Route_bill_data(req_products) ==
    [total_amount |-> SumSeq(LineTotals(Route_validated_products(req_products))),
     items |-> Route_validated_products(req_products)]

\* POST /api/bill/create run as one unit at instant t: [code, bill_no, bills]
Route_create_bill(req_products, t) ==
    IF Route_validate(req_products) # 0
    THEN [code |-> Route_validate(req_products), bill_no |-> 0, bills |-> bills]
    ELSE LET r == SQLite_create_bill(Route_bill_data(req_products), t)
         IN  IF r.ok
             THEN [code |-> 201, bill_no |-> r.bill_no, bills |-> r.bills]
             ELSE [code |-> 500, bill_no |-> 0, bills |-> bills]

\* what printer_service.print_bill does when it is called: it returns True,
\* returns False, or raises
PrinterOutcomes == {"printed", "failed", "raised"}

\* a print block with no handler: an exception of print_bill leaves it
Route_print_uncaught(should_print, printer) ==
    IF should_print /\ printer = "raised" THEN "Exception" ELSE "none"

\* the print block of create_bill: the exception that leaves it. The result
\* of print_bill is dropped and "except Exception" ends the block normally.
Route_print(should_print, printer) ==
    IF ~should_print THEN "none"
    ELSE IF printer = "raised" THEN "none"
    ELSE "none"

\* POST /api/bill/create with the 'print' key of the request and the
\* printer's behaviour: an exception after the commit is answered 500 by the
\* outer handler and leaves the stored bill
Route_create_bill_print(req_products, should_print, printer, t) ==
    LET r == Route_create_bill(req_products, t)
    IN  IF r.code # 201 THEN r
        ELSE IF Route_print(should_print, printer) # "none"
        THEN [r EXCEPT !.code = 500]
        ELSE r

\* GET /api/bill/next-number
Route_get_next_bill_number(t) ==
    IF SQLite_get_todays_bills(t) # {}
    THEN Max({bills[i].bill_no : i \in SQLite_get_todays_bills(t)}) + 1
    ELSE 1

\* GET /api/bill/management/all[?date=]: date_param is a day, or NoDate
Route_get_all_bills_management(date_param) ==
    IF date_param # NoDate
    THEN SQLite_get_bills_by_date_range(date_param, date_param)
    ELSE SQLite_get_all_bills_management

\* PUT /api/bill/<bill_no>/cancel: the status code of the answer
Route_cancel_bill(bill_no) ==
    IF SQLite_cancel_bill_rows(bill_no) # {} THEN 200 ELSE 400

\* PUT /api/bill/<bill_no>/update: products are looked up with get_product
\* (inactive rows included) and quantities are not checked
Route_update_validate(req_products) ==
    IF \E i \in DOMAIN req_products :
           SQLite_get_product(req_products[i].product_id) = NoRow
    THEN 404 ELSE 0

\* bill_update_data: the total is computed from the items, or is the
\* request's own total_amount when the products list is empty
Route_bill_update_data(req_products, total_amount) ==
    [total_amount |-> IF req_products # <<>>
                      THEN Route_bill_data(req_products).total_amount
                      ELSE total_amount,
     items |-> Route_bill_data(req_products).items]

Route_update_bill(bill_no, req_products, total_amount) ==
    IF Route_update_validate(req_products) # 0
    THEN [code |-> 404, bills |-> bills]
    ELSE IF SQLite_update_bill_rows(bill_no) = {}
    THEN [code |-> 400, bills |-> bills]
    ELSE [code |-> 200,
          bills |-> SQLite_update_bill(bill_no,
                        Route_bill_update_data(req_products, total_amount))]

\* ====================================================================
\* DatabaseService (services/db_service.py), SQLAlchemy models of models.py
\* ====================================================================

DatabaseService_get_product(product_id) ==
    IF product_id \in DOMAIN pg_products THEN pg_products[product_id] ELSE NoRow

\* setting = Settings.query.get('bill_reset_daily');
\* reset_daily = (setting.value == 'true') if setting else True
DatabaseService_reset_daily ==
    IF pg_settings["bill_reset_daily"] # NoRow
    THEN pg_settings["bill_reset_daily"].value = "true"
    ELSE TRUE

\* func.date(Bill.created_at) == date.today(): created_at is datetime.now()
DatabaseService_today_rows(t) ==
    {i \in DOMAIN pg_bills : local_date(pg_bills[i].created_at) = local_date(t)}

\* next_bill_no = 1; if max_bill: next_bill_no = max_bill + 1
DatabaseService_next_bill_no(t) ==
    LET scope == IF DatabaseService_reset_daily
                 THEN DatabaseService_today_rows(t)
                 ELSE DOMAIN pg_bills
        max_bill == Max({pg_bills[i].bill_no : i \in scope} \cup {0})
    IN  IF max_bill # 0 THEN max_bill + 1 ELSE 1

\* db.UniqueConstraint('bill_no', 'created_at', name='idx_daily_bill_unique'):
\* the constraint is on the timestamp, not on its date
Bill_idx_daily_bill_unique(bill_no, t) ==
    \A i \in DOMAIN pg_bills :
        ~(pg_bills[i].bill_no = bill_no /\ pg_bills[i].created_at = t)

DatabaseService_enrich(items) ==
    [i \in DOMAIN items |->
        [product_id |-> items[i].product_id,
         name |-> IF DatabaseService_get_product(items[i].product_id) # NoRow
                  THEN DatabaseService_get_product(items[i].product_id).name
                  ELSE "Unknown Product",
         price |-> items[i].price,
         quantity |-> items[i].quantity]]

\* Inventory.query.filter_by(product_id=...).first(): an inventory id, or 0
Inventory_linked_to(inv, product_id) ==
    LET hits == {i \in DOMAIN inv :
                    inv[i] # NoRow /\ inv[i].product_id = product_id}
    IN  IF hits = {} THEN 0 ELSE Min(hits)

\* the rows that query can return: first() has no ORDER BY
Inventory_linked_rows(inv, product_id) ==
    {i \in DOMAIN inv : inv[i] # NoRow /\ inv[i].product_id = product_id}

\* inv_item.stock -= item['quantity'] for one item, on the rows inv
DatabaseService_deduct_item(inv, item) ==
    IF Inventory_linked_to(inv, item.product_id) = 0
    THEN inv
    ELSE [inv EXCEPT ![Inventory_linked_to(inv, item.product_id)].stock =
                         @ - item.quantity]

\* the item loop of create_bill over all items
RECURSIVE DatabaseService_deduct(_, _)
DatabaseService_deduct(inv, items) ==
    IF items = <<>> THEN inv
    ELSE DatabaseService_deduct(DatabaseService_deduct_item(inv, Head(items)),
                                Tail(items))

DatabaseService_bill_row(bill_no, total_amount, enriched_items, t) ==
    [bill_no |-> bill_no,
     total_amount |-> total_amount,
     items |-> enriched_items,
     status |-> "CONFIRMED",
     created_at |-> t]

\* create_bill run as one unit at instant t: [bill_no, bills, inventory];
\* any exception is caught, the session rolled back and 0 returned
DatabaseService_create_bill(bill_data, t) ==
    LET next_bill_no == DatabaseService_next_bill_no(t)
    IN  IF Bill_idx_daily_bill_unique(next_bill_no, t)
        THEN [bill_no |-> next_bill_no,
              bills |-> Append(pg_bills,
                  DatabaseService_bill_row(next_bill_no, bill_data.total_amount,
                      DatabaseService_enrich(bill_data.items), t)),
              inventory |-> DatabaseService_deduct(inventory, bill_data.items)]
        ELSE [bill_no |-> 0, bills |-> pg_bills, inventory |-> inventory]

\* a conversion that re-derives name and price from the live Product rows
DatabaseService_bill_to_dict_live(bill) ==
    [bill_no |-> bill.bill_no, total_amount |-> bill.total_amount,
     items |-> [k \in DOMAIN bill.items |->
        IF DatabaseService_get_product(bill.items[k].product_id) # NoRow
        THEN [bill.items[k] EXCEPT
                !.name = DatabaseService_get_product(bill.items[k].product_id).name,
                !.price = DatabaseService_get_product(bill.items[k].product_id).price]
        ELSE bill.items[k]],
     status |-> bill.status, created_at |-> bill.created_at]

\* get_bill: today's first row numbered bill_no, through _bill_to_dict
DatabaseService_bill_to_dict(bill) ==
    [bill_no |-> bill.bill_no, total_amount |-> bill.total_amount,
     items |-> bill.items, status |-> bill.status, created_at |-> bill.created_at]

DatabaseService_get_bill(bill_no, t) ==
    LET hits == {i \in DatabaseService_today_rows(t) :
                    pg_bills[i].bill_no = bill_no}
    IN  IF hits = {} THEN NoRow
        ELSE DatabaseService_bill_to_dict(pg_bills[Min(hits)])

DatabaseService_get_todays_bills(t) ==
    {i \in DatabaseService_today_rows(t) : NotCancelled(pg_bills[i])}

DatabaseService_get_bills_by_date(target_date) ==
    {i \in DOMAIN pg_bills :
        local_date(pg_bills[i].created_at) = target_date
        /\ NotCancelled(pg_bills[i])}

DatabaseService_get_bills_by_date_range(s_date, e_date) ==
    {i \in DOMAIN pg_bills :
        /\ local_date(pg_bills[i].created_at) >= s_date
        /\ local_date(pg_bills[i].created_at) <= e_date
        /\ NotCancelled(pg_bills[i])}

DatabaseService_get_all_bills == {i \in DOMAIN pg_bills : NotCancelled(pg_bills[i])}

DatabaseService_get_all_bills_management == DOMAIN pg_bills

\* cancel_bill / update_bill use Query.first() with no ORDER BY: when several
\* rows match, the database decides which one is returned.  The candidates:
DatabaseService_cancel_bill_rows(bill_no, t) ==
    {i \in DatabaseService_today_rows(t) : pg_bills[i].bill_no = bill_no}

\* a cancel that flips the status instead of setting it
DatabaseService_cancel_bill_toggle(row) ==
    [pg_bills EXCEPT ![row].status =
        IF @ = "CANCELLED" THEN "CONFIRMED" ELSE "CANCELLED"]

\* cancel_bill on the row first() returned
DatabaseService_cancel_bill(row) ==
    [pg_bills EXCEPT ![row].status = "CANCELLED"]

DatabaseService_update_bill_rows(bill_no, t) ==
    {i \in DatabaseService_today_rows(t) :
        pg_bills[i].bill_no = bill_no /\ NotCancelled(pg_bills[i])}

\* update_bill on the row first() returned
DatabaseService_update_bill(row, bill_data) ==
    [pg_bills EXCEPT ![row].total_amount = bill_data.total_amount,
                     ![row].items = DatabaseService_enrich(bill_data.items)]

\* clear_all_bills: Bill.query.delete()
DatabaseService_clear_all_bills == <<>>

\* bill_data as billing.py builds it (validated_products and their total),
\* here from the catalog of the SQLAlchemy database
Caller_validated(req_products) ==
    /\ req_products # <<>>
    /\ \A i \in DOMAIN req_products :
          /\ req_products[i].quantity > 0
          /\ DatabaseService_get_product(req_products[i].product_id) # NoRow
          /\ DatabaseService_get_product(req_products[i].product_id).active

Caller_bill_data(req_products) ==
    LET items == [i \in DOMAIN req_products |->
                    [product_id |-> req_products[i].product_id,
                     name |-> pg_products[req_products[i].product_id].name,
                     price |-> pg_products[req_products[i].product_id].price,
                     quantity |-> req_products[i].quantity]]
    IN  [total_amount |-> SumSeq(LineTotals(items)), items |-> items]

\* ====================================================================
\* SummaryService (services/summary_service.py), over DatabaseService
\* ====================================================================

\* the rows get_today_summary totals: today's bills, or, when there are none,
\* the bills of the most recent day that has any (both without cancelled rows)
SummaryService_bills(t) ==
    IF DatabaseService_get_todays_bills(t) # {}
    THEN DatabaseService_get_todays_bills(t)
    ELSE IF DatabaseService_get_all_bills = {} THEN {}
    ELSE LET most_recent_date ==
                 Max({local_date(pg_bills[i].created_at) :
                         i \in DatabaseService_get_all_bills})
         IN  {i \in DatabaseService_get_all_bills :
                 local_date(pg_bills[i].created_at) = most_recent_date}

\* sum(bill['total_amount'] for bill in bills)
RECURSIVE SummaryService_sum(_)
SummaryService_sum(rows) ==
    IF rows = {} THEN 0
    ELSE pg_bills[Min(rows)].total_amount + SummaryService_sum(rows \ {Min(rows)})

SummaryService_total_sales(t) == SummaryService_sum(SummaryService_bills(t))


\* ====================================================================
\* products and settings
\* ====================================================================

\* partial update dictionaries of update_product
ProductUpdates ==
    { [name |-> "Gadget", price |-> 20], [active |-> FALSE] }

\* the seed rows
SeedProduct(p) ==
    IF p = "A1" THEN [name |-> "Widget", price |-> 10, active |-> TRUE]
    ELSE [name |-> "Cola", price |-> 25, active |-> TRUE]

\* update_product: only the fields present in product_data are written
Product_apply(row, product_data) ==
    [name |-> IF "name" \in DOMAIN product_data THEN product_data.name ELSE row.name,
     price |-> IF "price" \in DOMAIN product_data THEN product_data.price ELSE row.price,
     active |-> IF "active" \in DOMAIN product_data THEN product_data.active ELSE row.active]

SQLite_update_product(product_id, product_data) ==
    IF products[product_id] = NoRow THEN products
    ELSE [products EXCEPT ![product_id] = Product_apply(@, product_data)]

\* DELETE FROM products WHERE product_id = ?
SQLite_delete_product(product_id) == [products EXCEPT ![product_id] = NoRow]

\* INSERT INTO products: IntegrityError (False) when the id exists
SQLite_create_product(product_id, row) ==
    IF products[product_id] # NoRow THEN products
    ELSE [products EXCEPT ![product_id] = row]

DatabaseService_update_product(product_id, product_data) ==
    IF pg_products[product_id] = NoRow THEN pg_products
    ELSE [pg_products EXCEPT ![product_id] = Product_apply(@, product_data)]

\* delete_product: soft delete, p.active = False
DatabaseService_delete_product(product_id) ==
    IF pg_products[product_id] = NoRow THEN pg_products
    ELSE [pg_products EXCEPT ![product_id].active = FALSE]

\* permanently_delete_product: db.session.delete(p)
DatabaseService_permanently_delete_product(product_id) ==
    [pg_products EXCEPT ![product_id] = NoRow]

DatabaseService_create_product(product_id, row) ==
    IF pg_products[product_id] # NoRow THEN pg_products
    ELSE [pg_products EXCEPT ![product_id] = row]

\* a value of a JSON request body: its kind and its JSON text
Json(kind, text) == [kind |-> kind, text |-> text]

\* str(value) of Python: 'True' and 'False' for the booleans, 'None' for
\* null, the digits of a number, a string as it is
py_str(value) ==
    IF value.kind = "bool"
    THEN (IF value.text = "true" THEN "True" ELSE "False")
    ELSE IF value.kind = "null" THEN "None"
    ELSE value.text

\* a row of the settings table
Setting_row(value, group_name) == [value |-> value, group_name |-> group_name]

\* one entry of settings_list; group_name is Null when the key is absent
Setting(key, value, group_name) ==
    [key |-> key, value |-> value, group_name |-> group_name]

\* INSERT OR IGNORE: a key that has a row keeps it
SQLite_insert_or_ignore(store, setting) ==
    IF store[setting.key] = NoRow
    THEN [store EXCEPT ![setting.key] =
             Setting_row(py_str(setting.value),
                 IF setting.group_name = Null THEN "general"
                 ELSE setting.group_name)]
    ELSE store

\* INSERT INTO settings (key, value, group_name) VALUES (key, str(value),
\* setting.get('group_name', 'general')) ON CONFLICT(key) DO UPDATE SET
\* value = excluded.value,
\* group_name = COALESCE(setting.get('group_name'), settings.group_name)
SQLite_upsert(store, setting) ==
    IF store[setting.key] = NoRow
    THEN [store EXCEPT ![setting.key] =
             Setting_row(py_str(setting.value),
                 IF setting.group_name = Null THEN "general"
                 ELSE setting.group_name)]
    ELSE [store EXCEPT ![setting.key] =
             Setting_row(py_str(setting.value),
                 IF setting.group_name = Null THEN @.group_name
                 ELSE setting.group_name)]

\* the loop of update_settings_bulk over settings_list, then conn.commit()
RECURSIVE SQLite_upsert_all(_, _)
SQLite_upsert_all(store, settings_list) ==
    IF settings_list = <<>> THEN store
    ELSE SQLite_upsert_all(SQLite_upsert(store, Head(settings_list)),
                           Tail(settings_list))

\* update_settings_bulk: the settings table after the call
SQLite_update_settings_bulk(settings_list) ==
    SQLite_upsert_all(settings, settings_list)

\* row['value'] if row else default, of a table
Settings_value(store, key, default) ==
    IF store[key] # NoRow THEN store[key].value ELSE default

\* get_setting(key, default)
SQLite_get_setting(key, default) == Settings_value(settings, key, default)

\* the body of the loop of DatabaseService.update_settings_bulk: nothing for
\* a falsy key; an existing row gets value = str(value) and, if group_name
\* is truthy, the group; else Settings(key, str(value), group_name or 'app')
DatabaseService_upsert(store, setting) ==
    IF setting.key \in {Null, ""} THEN store
    ELSE IF store[setting.key] # NoRow
    THEN [store EXCEPT ![setting.key] =
             Setting_row(py_str(setting.value),
                 IF setting.group_name \in {Null, ""} THEN @.group_name
                 ELSE setting.group_name)]
    ELSE [store EXCEPT ![setting.key] =
             Setting_row(py_str(setting.value),
                 IF setting.group_name \in {Null, ""} THEN "app"
                 ELSE setting.group_name)]

\* the loop over settings_list in one session, then db.session.commit();
\* Settings.query.get flushes the pending rows before its SELECT, so a second
\* entry of a new key finds the row of the first
RECURSIVE DatabaseService_upsert_all(_, _)
DatabaseService_upsert_all(store, settings_list) ==
    IF settings_list = <<>> THEN store
    ELSE DatabaseService_upsert_all(
             DatabaseService_upsert(store, Head(settings_list)),
             Tail(settings_list))

\* update_settings_bulk: the Settings rows after the call
DatabaseService_update_settings_bulk(settings_list) ==
    DatabaseService_upsert_all(pg_settings, settings_list)

\* get_all_settings: {s.key: s.value for s in settings}
DatabaseService_get_all_settings ==
    [k \in {j \in DOMAIN pg_settings : pg_settings[j] # NoRow} |->
        pg_settings[k].value]

\* ====================================================================
\* inventory (services/db_service.py, routes/inventory.py)
\* ====================================================================

\* max(initial_stock, 10.0), and the default of Inventory.max_stock_history
DefaultMaxStockHistory == 10
\* the default of the column Inventory.alert_threshold, and
\* data.get('alert_threshold', 0) of create_inventory_item
DefaultAlertThreshold == 0

\* i.product: the Product row the inventory row points to, or NoRow for None
Inventory_product(row) ==
    IF row.product_id = Null THEN NoRow ELSE pg_products[row.product_id]

\* i.type == 'DIRECT_SALE' and i.product_id and i.product and not
\* i.product.active: the test of update_inventory and adjust_inventory_stock,
\* and is_locked of get_inventory_item
DatabaseService_is_locked(id) ==
    /\ inventory[id] # NoRow
    /\ inventory[id].type = "DIRECT_SALE"
    /\ inventory[id].product_id # Null
    /\ Inventory_product(inventory[id]) # NoRow
    /\ ~Inventory_product(inventory[id]).active

\* the primary key the INSERT assigns: an id no row holds (0 when the ids of
\* the model are used up)
Inventory_new_id ==
    IF \A i \in DOMAIN inventory : inventory[i] # NoRow THEN 0
    ELSE Min({i \in DOMAIN inventory : inventory[i] = NoRow})

\* create_inventory_item: [id, inventory], id 0 for None
DatabaseService_create_inventory_item(data) ==
    IF data.product_id # Null /\ Inventory_linked_to(inventory, data.product_id) # 0
    THEN [id |-> 0, inventory |-> inventory]
    ELSE IF data.product_id # Null /\ pg_products[data.product_id] # NoRow
                                  /\ ~pg_products[data.product_id].active
    THEN [id |-> 0, inventory |-> inventory]
    \* the foreign key inventory.product_id rejects the INSERT
    ELSE IF data.product_id # Null /\ pg_products[data.product_id] = NoRow
    THEN [id |-> 0, inventory |-> inventory]
    ELSE [id |-> Inventory_new_id,
          inventory |-> [inventory EXCEPT ![Inventory_new_id] =
              [type |-> data.type, product_id |-> data.product_id,
               stock |-> data.stock,
               alert_threshold |->
                   IF "alert_threshold" \in DOMAIN data
                   THEN data.alert_threshold ELSE DefaultAlertThreshold,
               max_stock_history |-> Max({data.stock, DefaultMaxStockHistory})]]]

\* the assignments of update_inventory for the keys present in data
Inventory_apply(row, data) ==
    [type |-> IF "type" \in DOMAIN data THEN data.type ELSE row.type,
     product_id |-> IF "product_id" \in DOMAIN data THEN data.product_id
                    ELSE row.product_id,
     stock |-> IF "stock" \in DOMAIN data THEN data.stock ELSE row.stock,
     alert_threshold |-> IF "alert_threshold" \in DOMAIN data
                         THEN data.alert_threshold ELSE row.alert_threshold,
     max_stock_history |->
        IF "stock" \in DOMAIN data /\ data.stock > row.max_stock_history
        THEN data.stock ELSE row.max_stock_history]

\* update_inventory: [ok, inventory]
DatabaseService_update_inventory(item_id, data) ==
    IF inventory[item_id] = NoRow \/ DatabaseService_is_locked(item_id)
    THEN [ok |-> FALSE, inventory |-> inventory]
    \* the foreign key inventory.product_id rejects the UPDATE
    ELSE IF "product_id" \in DOMAIN data /\ data.product_id # Null
                /\ pg_products[data.product_id] = NoRow
    THEN [ok |-> FALSE, inventory |-> inventory]
    ELSE [ok |-> TRUE,
          inventory |-> [inventory EXCEPT ![item_id] = Inventory_apply(@, data)]]

\* an adjustment that writes the new stock and leaves max_stock_history alone
DatabaseService_adjust_inventory_stock_no_history(item_id, adjustment) ==
    IF inventory[item_id] = NoRow \/ DatabaseService_is_locked(item_id)
    THEN [ok |-> FALSE, inventory |-> inventory]
    ELSE [ok |-> TRUE,
          inventory |-> [inventory EXCEPT ![item_id].stock = @ + adjustment]]

\* adjust_inventory_stock: [ok, inventory]
DatabaseService_adjust_inventory_stock(item_id, adjustment) ==
    IF inventory[item_id] = NoRow \/ DatabaseService_is_locked(item_id)
    THEN [ok |-> FALSE, inventory |-> inventory]
    ELSE [ok |-> TRUE,
          inventory |-> [inventory EXCEPT
              ![item_id].stock = @ + adjustment,
              ![item_id].max_stock_history =
                  IF inventory[item_id].stock + adjustment > @
                  THEN inventory[item_id].stock + adjustment ELSE @]]

\* delete_inventory_item: [ok, inventory]
DatabaseService_delete_inventory_item(item_id) ==
    IF inventory[item_id] = NoRow
    THEN [ok |-> FALSE, inventory |-> inventory]
    ELSE [ok |-> TRUE, inventory |-> [inventory EXCEPT ![item_id] = NoRow]]

\* the status get_all_inventory computes for a row: 'Out of Stock' when
\* stock <= 0, elif stock <= alert_threshold 'Low Stock', else 'In Stock'
Inventory_status(row) ==
    IF row.stock <= 0 THEN "Out of Stock"
    ELSE IF row.stock <= row.alert_threshold THEN "Low Stock"
    ELSE "In Stock"

\* the entry of get_all_inventory for a row: the keys this model reads
DatabaseService_get_all_inventory ==
    [i \in {j \in DOMAIN inventory : inventory[j] # NoRow} |->
        [stock |-> inventory[i].stock,
         alert_threshold |-> inventory[i].alert_threshold,
         status |-> Inventory_status(inventory[i]),
         is_locked |-> DatabaseService_is_locked(i)]]

\* get_inventory_item: the dictionary has no key 'status'; NoRow for None
DatabaseService_get_inventory_item(item_id) ==
    IF inventory[item_id] = NoRow THEN NoRow
    ELSE [stock |-> inventory[item_id].stock,
          alert_threshold |-> inventory[item_id].alert_threshold,
          is_locked |-> DatabaseService_is_locked(item_id)]

\* item.get('status') of a caller of get_inventory_item: Null for None
Item_status(item_id) ==
    LET item == DatabaseService_get_inventory_item(item_id)
    IN  IF "status" \in DOMAIN item THEN item.status ELSE Null

\* get_low_stock_products: the ids listed, each with its status. The query
\* filters stock <= alert_threshold; the loop skips the rows of inactive
\* products; the status is 'Out of Stock' when stock <= 0, else 'Low Stock'
DatabaseService_get_low_stock_products ==
    [i \in {j \in DOMAIN inventory :
                /\ inventory[j] # NoRow
                /\ inventory[j].stock <= inventory[j].alert_threshold
                /\ ~(/\ inventory[j].type = "DIRECT_SALE"
                     /\ Inventory_product(inventory[j]) # NoRow
                     /\ ~Inventory_product(inventory[j]).active)} |->
        IF inventory[i].stock <= 0 THEN "Out of Stock" ELSE "Low Stock"]

\* PUT/DELETE /api/inventory/<id> and POST /api/inventory/adjust up to the
\* call of the service: 409 when get_inventory_item reports is_locked, else 0
InventoryRoute_lock_check(item_id) ==
    IF DatabaseService_is_locked(item_id) THEN 409 ELSE 0

\* the service call of the three routes: [ok, inventory]
InventoryRoute_call(op, item_id, adjustment, data) ==
    IF op = "adjust" THEN DatabaseService_adjust_inventory_stock(item_id, adjustment)
    ELSE IF op = "update" THEN DatabaseService_update_inventory(item_id, data)
    ELSE DatabaseService_delete_inventory_item(item_id)

\* the answer after the service call
InventoryRoute_answer(ok) == IF ok THEN 200 ELSE 404

\* db.session.delete(p) of a Product: the unit of work sets product_id of the
\* Inventory row reached through the backref Product.inventory to NULL
Product_delete_orphans(product_id) ==
    [i \in DOMAIN inventory |->
        IF inventory[i] # NoRow /\ inventory[i].product_id = product_id
        THEN [inventory[i] EXCEPT !.product_id = Null]
        ELSE inventory[i]]

\* ====================================================================
\* categories (services/db_service.py, routes/categories.py)
\* ====================================================================

CategoryIds == {1}
CategoryNames == {"drinks"}
\* NULL in the integer column Product.category_id
NullId == 0
\* the category columns of a Product created without them
NoCategory == [category_id |-> NullId, category |-> Null]

\* c.products: the backref of Product.category_rel, by Product.category_id
Category_products(category_id) ==
    {p \in DOMAIN pg_products :
        pg_products[p] # NoRow /\ pg_product_cat[p].category_id = category_id}

\* SQLiteDatabaseService.is_category_used, second check: the products WHERE
\* category_id = ? OR category = ? (the legacy name column)
Category_relevant_prod_ids(category_id) ==
    {p \in DOMAIN pg_products :
        /\ pg_products[p] # NoRow
        /\ categories[category_id] # NoRow
        /\ \/ pg_product_cat[p].category_id = category_id
           \/ pg_product_cat[p].category = categories[category_id].name}

\* ... and whether one of them appears in the items of a stored bill
Category_in_bills(category_id) ==
    \E i \in DOMAIN pg_bills : \E k \in DOMAIN pg_bills[i].items :
        pg_bills[i].items[k].product_id \in Category_relevant_prod_ids(category_id)

\* DatabaseService.is_category_used(...)['used']: the products only
DatabaseService_is_category_used(category_id) ==
    /\ categories[category_id] # NoRow
    /\ Category_products(category_id) # {}

\* update_category(category_id, {'active': False})
DatabaseService_update_category(category_id, active) ==
    IF categories[category_id] = NoRow THEN categories
    ELSE [categories EXCEPT ![category_id].active = active]

\* delete_category: db.session.delete(c)
DatabaseService_delete_category(category_id) ==
    [categories EXCEPT ![category_id] = NoRow]

\* ... whose unit of work sets category_id of the rows in c.products to NULL
Category_delete_orphans(category_id) ==
    [p \in DOMAIN pg_product_cat |->
        IF p \in Category_products(category_id)
        THEN [pg_product_cat[p] EXCEPT !.category_id = NullId]
        ELSE pg_product_cat[p]]

\* create_category: the id the INSERT assigns, 0 when the ids of the model
\* are used up or the unique name is taken
Category_new_id(name) ==
    IF \/ \A c \in CategoryIds : categories[c] # NoRow
       \/ \E c \in CategoryIds : categories[c] # NoRow /\ categories[c].name = name
    THEN 0
    ELSE Min({c \in CategoryIds : categories[c] = NoRow})

DatabaseService_create_category(name) ==
    IF Category_new_id(name) = 0 THEN categories
    ELSE [categories EXCEPT ![Category_new_id(name)] =
              [name |-> name, active |-> TRUE]]

\* DELETE /api/categories/<id>: [action, categories, pg_product_cat]
CategoryRoute_delete_category(category_id) ==
    IF DatabaseService_is_category_used(category_id)
    THEN [action |-> "deactivated",
          categories |-> DatabaseService_update_category(category_id, FALSE),
          pg_product_cat |-> pg_product_cat]
    ELSE IF categories[category_id] # NoRow
    THEN [action |-> "removed",
          categories |-> DatabaseService_delete_category(category_id),
          pg_product_cat |-> Category_delete_orphans(category_id)]
    ELSE [action |-> "not found",
          categories |-> categories, pg_product_cat |-> pg_product_cat]

\* update_product with category_id and/or category in product_data
ProductCategoryUpdates ==
    { [category_id |-> 1], [category_id |-> NullId], [category |-> "drinks"] }

DatabaseService_update_product_category(product_id, product_data) ==
    IF pg_products[product_id] = NoRow THEN pg_product_cat
    \* the foreign key products.category_id rejects the UPDATE
    ELSE IF /\ "category_id" \in DOMAIN product_data
            /\ product_data.category_id # NullId
            /\ categories[product_data.category_id] = NoRow
    THEN pg_product_cat
    ELSE [pg_product_cat EXCEPT ![product_id] =
            [category_id |-> IF "category_id" \in DOMAIN product_data
                             THEN product_data.category_id ELSE @.category_id,
             category |-> IF "category" \in DOMAIN product_data
                          THEN product_data.category ELSE @.category]]

\* ====================================================================
\* SummaryService: the summary record and its category totals
\* ====================================================================

\* the time-of-day part of created_at
time_of_day(t) == t % 2

\* get_all_products: the ids of the rows it returns
DatabaseService_get_all_products(include_inactive) ==
    {p \in DOMAIN pg_products :
        /\ pg_products[p] # NoRow
        /\ include_inactive \/ pg_products[p].active}

\* p_dict['category'] of get_all_products: the legacy column, or the name of
\* the linked category when the legacy column is empty
DatabaseService_product_category(product_id) ==
    IF pg_product_cat[product_id].category # Null
    THEN pg_product_cat[product_id].category
    ELSE IF pg_product_cat[product_id].category_id # NullId
    THEN categories[pg_product_cat[product_id].category_id].name
    ELSE Null

\* a lookup of the category among all products, inactive ones included
SummaryService_product_category_any(product_id) ==
    IF product_id \in DatabaseService_get_all_products(TRUE)
    THEN DatabaseService_product_category(product_id)
    ELSE "unknown"

\* _calculate_category_totals: the category of one item, looked up in
\* get_all_products() (active products), "unknown" when it is not there
SummaryService_product_category(product_id) ==
    IF product_id \in DatabaseService_get_all_products(FALSE)
    THEN DatabaseService_product_category(product_id)
    ELSE "unknown"

\* the items of the bills of rows, in row order
RECURSIVE SummaryService_items(_)
SummaryService_items(rows) ==
    IF rows = {} THEN <<>>
    ELSE pg_bills[Min(rows)].items \o SummaryService_items(rows \ {Min(rows)})

\* _calculate_category_totals: bucket -> sum of price * quantity
SummaryService_calculate_category_totals(rows) ==
    LET items == SummaryService_items(rows)
        buckets == {SummaryService_product_category(items[k].product_id) :
                       k \in DOMAIN items}
    IN  [c \in buckets |->
            SumSeq([k \in DOMAIN items |->
                IF SummaryService_product_category(items[k].product_id) = c
                THEN items[k].price * items[k].quantity ELSE 0])]

\* the summary built from the bills of rows; NoDate stands for None
SummaryService_summary(rows) ==
    IF rows = {}
    THEN [total_bills |-> 0, total_sales |-> 0, category_totals |-> <<>>,
          first_bill_time |-> NoDate, last_bill_time |-> NoDate,
          average_bill_value |-> 0]
    ELSE [total_bills |-> Cardinality(rows),
          total_sales |-> SummaryService_sum(rows),
          category_totals |-> SummaryService_calculate_category_totals(rows),
          first_bill_time |->
              time_of_day(Min({pg_bills[i].created_at : i \in rows})),
          last_bill_time |->
              time_of_day(Max({pg_bills[i].created_at : i \in rows})),
          average_bill_value |-> SummaryService_sum(rows) \div Cardinality(rows)]

\* get_today_summary at instant t
SummaryService_get_today_summary(t) == SummaryService_summary(SummaryService_bills(t))

\* get_summary_for_date: the bills of get_all_bills created on target_date
SummaryService_get_summary_for_date(target_date) ==
    SummaryService_summary(
        {i \in DatabaseService_get_all_bills :
            local_date(pg_bills[i].created_at) = target_date})

\* ====================================================================
\* dashboard_refresher.py
\* ====================================================================

\* archive_previous_day_data replays every CREATE TABLE statement of
\* sqlite_master in the archive database (lines 64-70).  The tables of
\* products.db use AUTOINCREMENT, so sqlite_master lists sqlite_sequence and
\* SQLite refuses to create it ("object name reserved for internal use").
\* The exception reaches the handler at line 110: the SELECT of line 73 and
\* the DELETE of line 97 are never run and the method returns False.
DashboardRefresher_archive_previous_day_data == bills

\* ====================================================================
\* state machine: every handler runs to completion
\* ====================================================================

SettingKeys == {"bill_reset_daily"}
SettingValues == {"true", "false"}
InventoryIds == {1, 2}
BillNos == 1..MaxBills
UpdateItemLists == { <<Item("B2", 1), Item("A1", 2)>> }
\* the 'total_amount' key of an update request (0 when absent)
RequestTotals == {0, 50}
\* update requests with no products and with a quantity that is not positive
EditItemLists == UpdateItemLists \cup { <<>>, <<Item("A1", 0)>> }
\* the product the catalogue requests of a behaviour edit
EditedProductIds == {"A1"}
\* the product permanently_delete_product removes next to bill requests: one
\* without an inventory row (removing a linked product is part of SpecInv)
RemovedProductIds == {"B2"}

Reqs == 1..MaxReqs

\* DatabaseService takes every date from the host's local clock, so the
\* offset from UTC plays no part in it; SQLite stores UTC and converts
HostOffsets(service) == IF service = "sqlalchemy" THEN {0} ELSE {0, 1}

\* a request that has not arrived
IdleReq ==
    [pc |-> "idle", data |-> [total_amount |-> 0, items |-> <<>>],
     bill_no |-> 0, k |-> 0, loaded |-> {}, stock |-> [i \in InventoryIds |-> 0],
     ret |-> "pending", code |-> 0]

\* no inventory request in flight; code is the status of the last answer
IdleInvReq ==
    [pc |-> "idle", op |-> "none", id |-> 0, adjustment |-> 0, data |-> NoRow,
     code |-> 0]

\* no category, no request in flight
LedgerInit ==
    /\ pg_product_cat = [p \in ProductIds |-> NoCategory]
    /\ categories = [c \in CategoryIds |-> NoRow]
    /\ inv_req = IdleInvReq
    /\ pending = NoRow

Init ==
    /\ now = 0
    /\ svc \in {"sqlite", "sqlalchemy"}
    /\ tz \in HostOffsets(svc)
    /\ settings = [k \in SettingKeys |-> Setting_row("true", "billing")]
    /\ products = [p \in ProductIds |-> SeedProduct(p)]
    /\ bills = <<>>
    /\ pg_settings = [k \in SettingKeys |-> NoRow]
    /\ pg_products = [p \in ProductIds |-> SeedProduct(p)]
    /\ pg_bills = <<>>
    /\ inventory = [i \in InventoryIds |->
          IF i = 1
          THEN [type |-> "DIRECT_SALE", product_id |-> "A1",
                stock |-> 5, alert_threshold |-> DefaultAlertThreshold,
                max_stock_history |-> DefaultMaxStockHistory]
          ELSE [type |-> "RAW_MATERIAL", product_id |-> Null,
                stock |-> 3, alert_threshold |-> DefaultAlertThreshold,
                max_stock_history |-> DefaultMaxStockHistory]]
    /\ issued = 0
    /\ req = [r \in Reqs |-> IdleReq]
    /\ LedgerInit

sqlite_vars == <<settings, products, bills>>
pg_vars == <<pg_settings, pg_products, pg_bills, inventory>>
env_vars == <<now, tz, svc>>
\* issued after a step that took a bills table from before to after
IssuedAfter(before, after) ==
    IF Len(after) > Len(before) THEN issued + 1 ELSE issued

\* the clock advances
Tick ==
    /\ now < MaxTick
    /\ now' = now + 1
    /\ UNCHANGED <<tz, svc, sqlite_vars, pg_vars, issued, req, ledger_vars>>

\* ---- requests served over SQLiteDatabaseService
CreateBill(req_products) ==
    /\ svc = "sqlite"
    /\ issued < MaxBills
    /\ \E should_print \in BOOLEAN, printer \in PrinterOutcomes :
          bills' = Route_create_bill_print(req_products, should_print,
                                           printer, now).bills
    /\ issued' = IssuedAfter(bills, bills')
    /\ UNCHANGED <<env_vars, settings, products, pg_vars, req, ledger_vars>>

CancelBill(bill_no) ==
    /\ svc = "sqlite"
    /\ bills' = SQLite_cancel_bill(bill_no)
    /\ UNCHANGED <<env_vars, settings, products, pg_vars, issued, req, ledger_vars>>

UpdateBill(bill_no, req_products) ==
    /\ svc = "sqlite"
    /\ \E total_amount \in RequestTotals :
          bills' = Route_update_bill(bill_no, req_products, total_amount).bills
    /\ UNCHANGED <<env_vars, settings, products, pg_vars, issued, req, ledger_vars>>

ClearAllBills ==
    /\ svc = "sqlite"
    /\ bills' = SQLite_clear_all_bills
    /\ UNCHANGED <<env_vars, settings, products, pg_vars, issued, req, ledger_vars>>

ArchivePreviousDay ==
    /\ svc = "sqlite"
    /\ bills' = DashboardRefresher_archive_previous_day_data
    /\ UNCHANGED <<env_vars, settings, products, pg_vars, issued, req, ledger_vars>>

UpdateSettings(key, value) ==
    /\ svc = "sqlite"
    /\ settings' = SQLite_update_settings_bulk(
                        <<Setting(key, Json("str", value), Null)>>)
    /\ UNCHANGED <<env_vars, products, bills, pg_vars, issued, req, ledger_vars>>

UpdateProduct(product_id, product_data) ==
    /\ svc = "sqlite"
    /\ products' = SQLite_update_product(product_id, product_data)
    /\ UNCHANGED <<env_vars, settings, bills, pg_vars, issued, req, ledger_vars>>

DeleteProduct(product_id) ==
    /\ svc = "sqlite"
    /\ products' = SQLite_delete_product(product_id)
    /\ UNCHANGED <<env_vars, settings, bills, pg_vars, issued, req, ledger_vars>>

CreateProduct(product_id) ==
    /\ svc = "sqlite"
    /\ products' = SQLite_create_product(product_id, SeedProduct(product_id))
    /\ UNCHANGED <<env_vars, settings, bills, pg_vars, issued, req, ledger_vars>>

\* ---- calls of DatabaseService
DbCreateBill(req_products) ==
    /\ svc = "sqlalchemy"
    /\ issued < MaxBills
    /\ Caller_validated(req_products)
    /\ LET r == DatabaseService_create_bill(Caller_bill_data(req_products), now)
       IN  /\ pg_bills' = r.bills
           /\ inventory' = r.inventory
    /\ issued' = IssuedAfter(pg_bills, pg_bills')
    /\ UNCHANGED <<env_vars, sqlite_vars, pg_settings, pg_products, req, ledger_vars>>

\* a cancellation that gives the quantities of the bill back to the linked
\* inventory rows
DbCancelBill_restock(bill_no) ==
    /\ svc = "sqlalchemy"
    /\ IF DatabaseService_cancel_bill_rows(bill_no, now) = {}
       THEN UNCHANGED <<pg_bills, inventory>>
       ELSE \E row \in DatabaseService_cancel_bill_rows(bill_no, now) :
                /\ pg_bills' = DatabaseService_cancel_bill(row)
                /\ inventory' = [i \in DOMAIN inventory |->
                       IF inventory[i] = NoRow \/ inventory[i].product_id = Null
                       THEN inventory[i]
                       ELSE [inventory[i] EXCEPT !.stock = @ + SumSeq(
                               [k \in DOMAIN pg_bills[row].items |->
                                   IF pg_bills[row].items[k].product_id
                                          = inventory[i].product_id
                                   THEN pg_bills[row].items[k].quantity
                                   ELSE 0])]]
    /\ UNCHANGED <<env_vars, sqlite_vars, pg_settings, pg_products, issued, req, ledger_vars>>

DbCancelBill(bill_no) ==
    /\ svc = "sqlalchemy"
    /\ IF DatabaseService_cancel_bill_rows(bill_no, now) = {}
       THEN UNCHANGED pg_bills
       ELSE \E row \in DatabaseService_cancel_bill_rows(bill_no, now) :
                pg_bills' = DatabaseService_cancel_bill(row)
    /\ UNCHANGED <<env_vars, sqlite_vars, pg_settings, pg_products, inventory, issued, req, ledger_vars>>

DbUpdateBill(bill_no, req_products) ==
    /\ svc = "sqlalchemy"
    /\ Caller_validated(req_products)
    /\ IF DatabaseService_update_bill_rows(bill_no, now) = {}
       THEN UNCHANGED pg_bills
       ELSE \E row \in DatabaseService_update_bill_rows(bill_no, now) :
                pg_bills' = DatabaseService_update_bill(row,
                                Caller_bill_data(req_products))
    /\ UNCHANGED <<env_vars, sqlite_vars, pg_settings, pg_products, inventory, issued, req, ledger_vars>>

DbClearAllBills ==
    /\ svc = "sqlalchemy"
    /\ pg_bills' = DatabaseService_clear_all_bills
    /\ UNCHANGED <<env_vars, sqlite_vars, pg_settings, pg_products, inventory, issued, req, ledger_vars>>

DbUpdateSettings(key, value) ==
    /\ svc = "sqlalchemy"
    /\ pg_settings' = DatabaseService_update_settings_bulk(
                        <<Setting(key, Json("str", value), Null)>>)
    /\ UNCHANGED <<env_vars, sqlite_vars, pg_products, pg_bills, inventory, issued, req, ledger_vars>>

DbUpdateProduct(product_id, product_data) ==
    /\ svc = "sqlalchemy"
    /\ pg_products' = DatabaseService_update_product(product_id, product_data)
    /\ UNCHANGED <<env_vars, sqlite_vars, pg_settings, pg_bills, inventory, issued, req, ledger_vars>>

DbDeleteProduct(product_id) ==
    /\ svc = "sqlalchemy"
    /\ pg_products' = DatabaseService_delete_product(product_id)
    /\ UNCHANGED <<env_vars, sqlite_vars, pg_settings, pg_bills, inventory, issued, req, ledger_vars>>

\* the DELETE fails on the foreign key of inventory.product_id when a second
\* inventory row points to the product: the scalar backref unlinks one row
DbPermanentlyDeleteProduct(product_id) ==
    /\ svc = "sqlalchemy"
    /\ IF Cardinality(Inventory_linked_rows(inventory, product_id)) > 1
       THEN UNCHANGED <<pg_products, inventory>>
       ELSE /\ pg_products' = DatabaseService_permanently_delete_product(product_id)
            /\ inventory' = Product_delete_orphans(product_id)
    /\ UNCHANGED <<env_vars, sqlite_vars, pg_settings, pg_bills, issued, req, ledger_vars>>

\* product_data carries no category: category_id and category are None
DbCreateProduct(product_id) ==
    /\ svc = "sqlalchemy"
    /\ pg_products' = DatabaseService_create_product(product_id, SeedProduct(product_id))
    /\ pg_product_cat' = IF pg_products[product_id] = NoRow
                         THEN [pg_product_cat EXCEPT ![product_id] = NoCategory]
                         ELSE pg_product_cat
    /\ UNCHANGED <<env_vars, sqlite_vars, pg_settings, pg_bills, inventory, issued, req,
                   categories, inv_req, pending>>

SqliteRequest ==
    \/ \E req_products \in ItemLists : CreateBill(req_products)
    \/ \E bill_no \in BillNos : CancelBill(bill_no)
    \/ \E bill_no \in BillNos, req_products \in UpdateItemLists :
           UpdateBill(bill_no, req_products)
    \/ ClearAllBills
    \/ ArchivePreviousDay
    \/ \E key \in SettingKeys, value \in SettingValues : UpdateSettings(key, value)
    \/ \E p \in EditedProductIds, d \in ProductUpdates : UpdateProduct(p, d)
    \/ \E p \in EditedProductIds : DeleteProduct(p)
    \/ \E p \in EditedProductIds : CreateProduct(p)

DbCall ==
    \/ \E req_products \in ValidItemLists : DbCreateBill(req_products)
    \/ \E bill_no \in BillNos : DbCancelBill(bill_no)
    \/ \E bill_no \in BillNos, req_products \in UpdateItemLists :
           DbUpdateBill(bill_no, req_products)
    \/ DbClearAllBills
    \/ \E key \in SettingKeys, value \in SettingValues : DbUpdateSettings(key, value)
    \/ \E p \in EditedProductIds, d \in ProductUpdates : DbUpdateProduct(p, d)
    \/ \E p \in EditedProductIds : DbDeleteProduct(p)
    \/ \E p \in RemovedProductIds : DbPermanentlyDeleteProduct(p)
    \/ \E p \in RemovedProductIds : DbCreateProduct(p)

Next == Tick \/ SqliteRequest \/ DbCall

Spec == Init /\ [][Next]_vars

\* ====================================================================
\* concurrent create requests, one database statement per step
\* ====================================================================
\* The product catalogue and the inventory links are fixed in these
\* behaviours, so a name resolved on arrival is the name resolved later.

other_vars == <<tz, svc, settings, products, pg_settings, pg_products,
                ledger_vars>>

\* requests are numbered in the order they arrive
Arrives(r) ==
    /\ req[r].pc = "idle"
    /\ \A q \in Reqs : q < r => req[q].pc # "idle"

\* a request that has returned: its local variables are gone, the outcome of
\* db.create_bill (ret) and the status code of the answer stay
Returned(ret, bill_no, code) ==
    [IdleReq EXCEPT !.pc = "done", !.ret = ret, !.bill_no = bill_no, !.code = code]

\* billing.py create_bill up to the call of db.create_bill, and the
\* enrichment loop of SQLiteDatabaseService.create_bill
Create_validate(r, req_products) ==
    /\ svc = "sqlite"
    /\ Arrives(r)
    /\ req' = [req EXCEPT ![r] =
          IF Route_validate(req_products) # 0
          THEN Returned("pending", 0, Route_validate(req_products))
          ELSE [@ EXCEPT !.pc = "validated",
                         !.data = [total_amount |->
                                       Route_bill_data(req_products).total_amount,
                                   items |-> SQLite_enrich(
                                       Route_bill_data(req_products).items)]]]
    /\ UNCHANGED <<now, other_vars, bills, pg_bills, inventory, issued>>

\* the SELECT of the setting and the SELECT COALESCE(MAX(bill_no), 0) + 1
Create_select_next_bill_no(r) ==
    /\ req[r].pc = "validated"
    /\ req' = [req EXCEPT ![r].pc = "numbered",
                          ![r].bill_no = SQLite_next_bill_no(now)]
    /\ UNCHANGED <<now, other_vars, bills, pg_bills, inventory, issued>>

\* INSERT INTO bills and conn.commit(); sqlite3.IntegrityError is caught by
\* the route's "except Exception" and answered with 500
Create_insert(r) ==
    /\ req[r].pc = "numbered"
    /\ IF SQLite_idx_daily_bill(req[r].bill_no, now)
       THEN /\ bills' = Append(bills,
                   SQLite_bill_row(req[r].bill_no, req[r].data.total_amount,
                                   req[r].data.items, now))
            /\ issued' = issued + 1
            /\ req' = [req EXCEPT ![r].pc = "inserted", ![r].ret = "ok"]
       ELSE /\ req' = [req EXCEPT ![r] = Returned("failed", 0, 500)]
            /\ UNCHANGED <<bills, issued>>
    /\ UNCHANGED <<now, other_vars, pg_bills, inventory>>

\* created_bill = db.get_bill(bill_no); created_bill['created_at'] raises
\* TypeError on None, answered with 500; then the print block and the answer
Create_get_bill(r) ==
    /\ req[r].pc = "inserted"
    /\ \E should_print \in BOOLEAN, printer \in PrinterOutcomes :
          req' = [req EXCEPT ![r] =
             Returned("ok", req[r].bill_no,
                      IF SQLite_get_bill(req[r].bill_no, now) = NoRow
                      THEN 500
                      ELSE IF Route_print(should_print, printer) # "none"
                      THEN 500 ELSE 201)]
    /\ UNCHANGED <<now, other_vars, bills, pg_bills, inventory, issued>>

\* DatabaseService.create_bill: Settings.query.get and func.max(Bill.bill_no)
DbCreate_select_max(r, req_products) ==
    /\ svc = "sqlalchemy"
    /\ Arrives(r)
    /\ Caller_validated(req_products)
    /\ req' = [req EXCEPT ![r] =
          [@ EXCEPT !.pc = "items",
                    !.data = Caller_bill_data(req_products),
                    !.bill_no = DatabaseService_next_bill_no(now),
                    !.k = 1]]
    /\ UNCHANGED <<now, other_vars, bills, pg_bills, inventory, issued>>

\* the stock the session holds for inventory row id: the attribute of the
\* object in its identity map, or the committed value on first load
DatabaseService_session_stock(r, id) ==
    IF id \in req[r].loaded THEN req[r].stock[id] ELSE inventory[id].stock

\* one turn of the item loop: inv_item.stock -= item['quantity'] in the session
DbCreate_item(r) ==
    /\ req[r].pc = "items"
    /\ req[r].k <= Len(req[r].data.items)
    /\ LET item == req[r].data.items[req[r].k]
           id == Inventory_linked_to(inventory, item.product_id)
       IN  req' = [req EXCEPT ![r] =
              IF id = 0
              THEN [@ EXCEPT !.k = @ + 1]
              ELSE [@ EXCEPT !.k = @ + 1,
                             !.loaded = @ \cup {id},
                             !.stock[id] =
                                 DatabaseService_session_stock(r, id)
                                     - item.quantity]]
    /\ UNCHANGED <<now, other_vars, bills, pg_bills, inventory, issued>>

\* the flush of commit: UPDATE inventory SET stock = <the session's value>
DatabaseService_session_flush(r) ==
    [i \in InventoryIds |->
        IF i \in req[r].loaded
        THEN [inventory[i] EXCEPT !.stock = req[r].stock[i]]
        ELSE inventory[i]]

\* a rollback that leaves the session's stock updates in the table
DatabaseService_rollback_keeps_stock(r) == DatabaseService_session_flush(r)

\* db.session.rollback(): the inventory table after it
DatabaseService_rollback(r) == inventory

\* Bill(..., created_at=datetime.now()); db.session.add; db.session.commit():
\* the UPDATEs and the INSERT are one transaction; idx_daily_bill_unique
\* raises IntegrityError, handled by rollback and return 0
DbCreate_commit(r) ==
    /\ req[r].pc = "items"
    /\ req[r].k > Len(req[r].data.items)
    /\ IF Bill_idx_daily_bill_unique(req[r].bill_no, now)
       THEN /\ pg_bills' = Append(pg_bills,
                   DatabaseService_bill_row(req[r].bill_no,
                       req[r].data.total_amount,
                       DatabaseService_enrich(req[r].data.items), now))
            /\ inventory' = DatabaseService_session_flush(r)
            /\ issued' = issued + 1
            /\ req' = [req EXCEPT ![r] = Returned("ok", req[r].bill_no, 0)]
       ELSE /\ inventory' = DatabaseService_rollback(r)
            /\ req' = [req EXCEPT ![r] = Returned("failed", 0, 0)]
            /\ UNCHANGED <<pg_bills, issued>>
    /\ UNCHANGED <<now, other_vars, bills>>

\* any other exception inside the try block (a lost connection, a deadlock):
\* except Exception: db.session.rollback(); return 0
DbCreate_exception(r) ==
    /\ req[r].pc = "items"
    /\ inventory' = DatabaseService_rollback(r)
    /\ req' = [req EXCEPT ![r] = Returned("aborted", 0, 0)]
    /\ UNCHANGED <<now, other_vars, bills, pg_bills, issued>>

\* the settings rows hold either value when the requests arrive
InitConc ==
    /\ now = 0
    /\ svc \in {"sqlite", "sqlalchemy"}
    /\ tz \in HostOffsets(svc)
    /\ settings \in [SettingKeys ->
                        {Setting_row(v, "billing") : v \in SettingValues}]
    /\ products = [p \in ProductIds |-> SeedProduct(p)]
    /\ bills = <<>>
    /\ pg_settings \in [SettingKeys ->
              {Setting_row(v, "billing") : v \in SettingValues} \cup {NoRow}]
    /\ pg_products = [p \in ProductIds |-> SeedProduct(p)]
    /\ pg_bills = <<>>
    /\ inventory = [i \in InventoryIds |->
          IF i = 1
          THEN [type |-> "DIRECT_SALE", product_id |-> "A1",
                stock |-> 5, alert_threshold |-> DefaultAlertThreshold,
                max_stock_history |-> DefaultMaxStockHistory]
          ELSE [type |-> "RAW_MATERIAL", product_id |-> Null,
                stock |-> 3, alert_threshold |-> DefaultAlertThreshold,
                max_stock_history |-> DefaultMaxStockHistory]]
    /\ issued = 0
    /\ req = [r \in Reqs |-> IdleReq]
    /\ LedgerInit

NextConc ==
    \/ Tick
    \/ \E r \in Reqs, req_products \in ItemLists : Create_validate(r, req_products)
    \/ \E r \in Reqs : Create_select_next_bill_no(r)
    \/ \E r \in Reqs : Create_insert(r)
    \/ \E r \in Reqs : Create_get_bill(r)
    \/ \E r \in Reqs, req_products \in ValidItemLists :
           DbCreate_select_max(r, req_products)
    \/ \E r \in Reqs : DbCreate_item(r)
    \/ \E r \in Reqs : DbCreate_commit(r)
    \/ \E r \in Reqs : DbCreate_exception(r)

SpecConc == InitConc /\ [][NextConc]_vars

\* ====================================================================
\* the inventory ledger: inventory requests, one service call per step,
\* next to bill creation and product (de)activation
\* ====================================================================

MaxStock == 11    \* no request raises a stock above this

\* request bodies: POST /api/inventory/create, PUT /api/inventory/<id>,
\* POST /api/inventory/adjust, and the active flag of PUT /api/products/<id>
InventoryCreates ==
    { [type |-> "DIRECT_SALE", product_id |-> "A1", stock |-> MaxStock],
      [type |-> "RAW_MATERIAL", product_id |-> Null, stock |-> 3] }
InventoryUpdates == { [stock |-> MaxStock], [product_id |-> "A1"] }
Adjustments == {6, 0 - 6}
InventoryOps == {"adjust", "update", "delete"}
ActiveUpdates == { [active |-> FALSE], [active |-> TRUE] }
\* the bill sold in these behaviours: B2 has no inventory row, A1 has
LedgerItemLists == { <<Item("B2", 1), Item("A1", 2)>> }

\* what first() answers for each product: one of the linked rows, 0 for None
Inventory_first_choices ==
    {first \in [ProductIds -> InventoryIds \cup {0}] :
        \A p \in ProductIds :
            IF Inventory_linked_rows(inventory, p) = {} THEN first[p] = 0
            ELSE first[p] \in Inventory_linked_rows(inventory, p)}

\* an item loop that passes over a row whose product is inactive
RECURSIVE DatabaseService_deduct_first_unlocked(_, _, _)
DatabaseService_deduct_first_unlocked(inv, items, first) ==
    IF items = <<>> THEN inv
    ELSE DatabaseService_deduct_first_unlocked(
             IF Head(items).product_id \notin DOMAIN first
                    \/ first[Head(items).product_id] = 0
                    \/ DatabaseService_is_locked(first[Head(items).product_id])
             THEN inv
             ELSE [inv EXCEPT ![first[Head(items).product_id]].stock =
                                  @ - Head(items).quantity],
             Tail(items), first)

\* the item loop of create_bill where first() answers first[product_id]
RECURSIVE DatabaseService_deduct_first(_, _, _)
DatabaseService_deduct_first(inv, items, first) ==
    IF items = <<>> THEN inv
    ELSE DatabaseService_deduct_first(
             IF Head(items).product_id \notin DOMAIN first
                    \/ first[Head(items).product_id] = 0
             THEN inv
             ELSE [inv EXCEPT ![first[Head(items).product_id]].stock =
                                  @ - Head(items).quantity],
             Tail(items), first)

\* the requests keep the stocks of the model in a finite range
Inventory_in_range(op, item_id, adjustment, data) ==
    /\ (op = "adjust" /\ inventory[item_id] # NoRow) =>
          /\ adjustment > 0 => inventory[item_id].stock + adjustment <= MaxStock
          /\ adjustment < 0 => inventory[item_id].stock > 0
    /\ op = "adjust" <=> adjustment # 0
    /\ op = "update" <=> data # NoRow

\* billing.py: the validation of a create request and its bill_data
ValidateBill(req_products) ==
    /\ pending = NoRow
    /\ issued < MaxBills
    /\ Caller_validated(req_products)
    /\ pending' = Caller_bill_data(req_products)
    /\ UNCHANGED <<env_vars, sqlite_vars, pg_vars, issued, req,
                   pg_product_cat, categories, inv_req>>

\* DatabaseService.create_bill on the validated bill_data
DbCreateBillCall ==
    /\ pending # NoRow
    /\ LET r == DatabaseService_create_bill(pending, now)
       IN  /\ pg_bills' = r.bills
           /\ IF r.bill_no = 0 THEN UNCHANGED inventory
              ELSE \E first \in Inventory_first_choices :
                       inventory' = DatabaseService_deduct_first(
                                        inventory, pending.items, first)
    /\ issued' = IssuedAfter(pg_bills, pg_bills')
    /\ pending' = NoRow
    /\ UNCHANGED <<env_vars, sqlite_vars, pg_settings, pg_products, req,
                   pg_product_cat, categories, inv_req>>

\* routes/inventory.py update_inventory, adjust_stock, delete_inventory up to
\* db.get_inventory_item and the is_locked test
Inv_check(op, item_id, adjustment, data) ==
    /\ inv_req.pc = "idle"
    /\ Inventory_in_range(op, item_id, adjustment, data)
    /\ inv_req' = IF InventoryRoute_lock_check(item_id) = 409
                  THEN [IdleInvReq EXCEPT !.code = 409]
                  ELSE [pc |-> "call", op |-> op, id |-> item_id,
                        adjustment |-> adjustment, data |-> data, code |-> 0]
    /\ UNCHANGED <<env_vars, sqlite_vars, pg_vars, issued, req,
                   pg_product_cat, categories, pending>>

\* ... and the call of db.update_inventory, db.adjust_inventory_stock or
\* db.delete_inventory_item with the answer built from its result
Inv_call ==
    /\ inv_req.pc = "call"
    /\ LET r == InventoryRoute_call(inv_req.op, inv_req.id,
                                    inv_req.adjustment, inv_req.data)
       IN  /\ inventory' = r.inventory
           /\ inv_req' = [IdleInvReq EXCEPT !.code = InventoryRoute_answer(r.ok)]
    /\ UNCHANGED <<env_vars, sqlite_vars, pg_settings, pg_products, pg_bills,
                   issued, req, pg_product_cat, categories, pending>>

\* POST /api/inventory/create
CreateInventory(data) ==
    /\ Inventory_new_id # 0
    /\ inventory' = DatabaseService_create_inventory_item(data).inventory
    /\ UNCHANGED <<env_vars, sqlite_vars, pg_settings, pg_products, pg_bills,
                   issued, req, ledger_vars>>

InitInv ==
    /\ now = 0
    /\ svc = "sqlalchemy"
    /\ tz = 0
    /\ settings = [k \in SettingKeys |-> Setting_row("true", "billing")]
    /\ products = [p \in ProductIds |-> SeedProduct(p)]
    /\ bills = <<>>
    /\ pg_settings = [k \in SettingKeys |-> NoRow]
    /\ pg_products = [p \in ProductIds |-> SeedProduct(p)]
    /\ pg_bills = <<>>
    /\ inventory = [i \in InventoryIds |->
          IF i = 1
          THEN [type |-> "DIRECT_SALE", product_id |-> "A1",
                stock |-> 5, alert_threshold |-> DefaultAlertThreshold,
                max_stock_history |-> DefaultMaxStockHistory]
          ELSE [type |-> "RAW_MATERIAL", product_id |-> Null,
                stock |-> 3, alert_threshold |-> DefaultAlertThreshold,
                max_stock_history |-> DefaultMaxStockHistory]]
    /\ issued = 0
    /\ req = [r \in Reqs |-> IdleReq]
    /\ LedgerInit

NextInv ==
    \/ \E req_products \in LedgerItemLists : ValidateBill(req_products)
    \/ DbCreateBillCall
    \/ \E op \in InventoryOps, item_id \in InventoryIds,
          adjustment \in Adjustments \cup {0},
          data \in InventoryUpdates \cup {NoRow} :
              Inv_check(op, item_id, adjustment, data)
    \/ Inv_call
    \/ \E data \in InventoryCreates : CreateInventory(data)
    \/ \E p \in EditedProductIds, d \in ActiveUpdates : DbUpdateProduct(p, d)
    \/ \E p \in EditedProductIds : DbPermanentlyDeleteProduct(p)

SpecInv == InitInv /\ [][NextInv]_vars

\* ====================================================================
\* the settings store: PUT /api/settings with a list body, on either
\* service, over a table with a seeded key, a key no request writes and a
\* key that has no row at the start
\* ====================================================================

StoreKeys == {"bill_reset_daily", "printer_enabled", "shop_tagline"}
WrittenKeys == {"bill_reset_daily", "shop_tagline"}
JsonValues ==
    {Json("bool", "true"), Json("str", "false"), Json("number", "5"),
     Json("null", "null")}
GroupNames == {Null, "app", "shop"}
SettingEntries ==
    {Setting(k, v, g) : k \in WrittenKeys, v \in JsonValues, g \in GroupNames}
\* the bodies: no entry, one entry, two entries (of one key or of two)
SettingsLists ==
    {<<>>} \cup {<<a>> : a \in SettingEntries}
           \cup {<<a, b>> : a \in SettingEntries, b \in SettingEntries}
\* the default a caller of get_setting passes
Defaults == {Null, "true", "0"}

\* the rows _init_settings_table seeds; the SQLAlchemy table starts empty
InitSettings ==
    /\ now = 0
    /\ svc \in {"sqlite", "sqlalchemy"}
    /\ tz = 0
    /\ settings = [k \in StoreKeys |->
          IF k = "bill_reset_daily" THEN Setting_row("true", "billing")
          ELSE IF k = "printer_enabled" THEN Setting_row("false", "printer")
          ELSE NoRow]
    /\ products = [p \in ProductIds |-> SeedProduct(p)]
    /\ bills = <<>>
    /\ pg_settings = [k \in StoreKeys |-> NoRow]
    /\ pg_products = [p \in ProductIds |-> SeedProduct(p)]
    /\ pg_bills = <<>>
    /\ inventory = [i \in InventoryIds |-> NoRow]
    /\ issued = 0
    /\ req = [r \in Reqs |-> IdleReq]
    /\ LedgerInit

\* PUT /api/settings with a list: db_service.update_settings_bulk(data)
UpdateSettingsBulk(settings_list) ==
    /\ svc = "sqlite"
    /\ settings' = SQLite_update_settings_bulk(settings_list)
    /\ UNCHANGED <<env_vars, products, bills, pg_vars, issued, req, ledger_vars>>

\* DatabaseService.update_settings_bulk(settings_list)
DbUpdateSettingsBulk(settings_list) ==
    /\ svc = "sqlalchemy"
    /\ pg_settings' = DatabaseService_update_settings_bulk(settings_list)
    /\ UNCHANGED <<env_vars, sqlite_vars, pg_products, pg_bills, inventory,
                   issued, req, ledger_vars>>

NextSettings ==
    \/ \E settings_list \in SettingsLists : UpdateSettingsBulk(settings_list)
    \/ \E settings_list \in SettingsLists : DbUpdateSettingsBulk(settings_list)

SpecSettings == InitSettings /\ [][NextSettings]_vars

\* ====================================================================
\* stock levels: PUT /api/inventory/<id> with a stock or an alert
\* threshold of either sign, next to product (de)activation
\* ====================================================================

StockValues == {0 - 1, 0, 2, 4}
ThresholdValues == {0 - 1, 0, 2}
StockUpdates ==
    { [stock |-> v] : v \in StockValues }
        \cup { [alert_threshold |-> v] : v \in ThresholdValues }

\* PUT /api/inventory/<id>: 409 for a locked row, else db.update_inventory
UpdateInventory(item_id, data) ==
    /\ InventoryRoute_lock_check(item_id) = 0
    /\ inventory' = DatabaseService_update_inventory(item_id, data).inventory
    /\ UNCHANGED <<env_vars, sqlite_vars, pg_settings, pg_products, pg_bills,
                   issued, req, ledger_vars>>

NextStock ==
    \/ \E item_id \in InventoryIds, data \in StockUpdates :
           UpdateInventory(item_id, data)
    \/ \E p \in EditedProductIds, d \in ActiveUpdates : DbUpdateProduct(p, d)

SpecStock == InitInv /\ [][NextStock]_vars

\* ====================================================================
\* bill edits: create, update and cancel requests of one day, the update
\* requests with every kind of products list
\* ====================================================================

InitEdit ==
    /\ Init
    /\ svc = "sqlite"
    /\ tz = 0

NextEdit ==
    \/ \E req_products \in ItemLists : CreateBill(req_products)
    \/ \E bill_no \in BillNos, req_products \in EditItemLists :
           UpdateBill(bill_no, req_products)
    \/ \E bill_no \in BillNos : CancelBill(bill_no)

SpecEdit == InitEdit /\ [][NextEdit]_vars

\* ====================================================================
\* categories: the requests of routes/categories.py next to product
\* category edits and bill creation
\* ====================================================================

\* DELETE /api/categories/<id>
DeleteCategory(category_id) ==
    /\ categories' = CategoryRoute_delete_category(category_id).categories
    /\ pg_product_cat' = CategoryRoute_delete_category(category_id).pg_product_cat
    /\ UNCHANGED <<env_vars, sqlite_vars, pg_vars, issued, req, inv_req, pending>>

\* POST /api/categories
CreateCategory(name) ==
    /\ categories' = DatabaseService_create_category(name)
    /\ UNCHANGED <<env_vars, sqlite_vars, pg_vars, issued, req,
                   pg_product_cat, inv_req, pending>>

\* PUT /api/categories/<id> with {'active': ...}
UpdateCategory(category_id, active) ==
    /\ categories' = DatabaseService_update_category(category_id, active)
    /\ UNCHANGED <<env_vars, sqlite_vars, pg_vars, issued, req,
                   pg_product_cat, inv_req, pending>>

\* DatabaseService.update_product with the category keys
DbUpdateProductCategory(product_id, product_data) ==
    /\ pg_product_cat' =
           DatabaseService_update_product_category(product_id, product_data)
    /\ UNCHANGED <<env_vars, sqlite_vars, pg_vars, issued, req,
                   categories, inv_req, pending>>

NextCat ==
    \/ \E c \in CategoryIds : DeleteCategory(c)
    \/ \E name \in CategoryNames : CreateCategory(name)
    \/ \E p \in EditedProductIds, d \in ActiveUpdates : DbUpdateProduct(p, d)
    \/ \E c \in CategoryIds : UpdateCategory(c, TRUE)
    \/ \E p \in ProductIds, d \in ProductCategoryUpdates :
           DbUpdateProductCategory(p, d)
    \/ \E req_products \in ValidItemLists : DbCreateBill(req_products)

SpecCat == InitInv /\ [][NextCat]_vars

\* ====================================================================
\* properties of the sequential system (Spec)
\* ====================================================================

\* the quantity a bill sells of one product
Sold(items, product_id) ==
    SumSeq([k \in DOMAIN items |->
               IF items[k].product_id = product_id THEN items[k].quantity ELSE 0])

Days == 0..((MaxTick + 1) \div 2)

\* C4: createBill with item (p, q) lowers the stock of the inventory row
\* linked to p by exactly q and leaves every other stock as it was.  Stated
\* for both create paths: the request POST /api/bill/create and a call of
\* DatabaseService.create_bill.
C4_CreateBillDeductsStock ==
    [][\A req_products \in ValidItemLists :
          (\/ CreateBill(req_products) /\ Route_create_bill(req_products, now).code = 201
           \/ DbCreateBill(req_products)
                /\ DatabaseService_create_bill(Caller_bill_data(req_products), now).bill_no # 0)
          => \A i \in InventoryIds :
                inventory'[i].stock = inventory[i].stock
                    - SumSeq([k \in DOMAIN req_products |->
                                IF req_products[k].product_id = inventory[i].product_id
                                THEN req_products[k].quantity ELSE 0])]_vars

\* C5: a step that changes the product catalogue (rename, reprice,
\* deactivate, delete, re-create) changes no answer of getBill: every bill
\* getBill can return keeps the line items stored with it.
C5_ProductOpsKeepBillItems ==
    [][(products' # products \/ pg_products' # pg_products) =>
          \A n \in BillNos :
              /\ SQLite_get_bill(n, now)' = SQLite_get_bill(n, now)
              /\ DatabaseService_get_bill(n, now)' = DatabaseService_get_bill(n, now)]_vars

\* a bill sold as "Widget" at 10 is read back so after the product became "Gadget"
C5_Witness ==
    /\ svc = "sqlalchemy"
    /\ pg_products["A1"] # NoRow
    /\ pg_products["A1"].name = "Gadget"
    /\ DatabaseService_get_bill(1, now) # NoRow
    /\ \E k \in DOMAIN DatabaseService_get_bill(1, now).items :
          /\ DatabaseService_get_bill(1, now).items[k].product_id = "A1"
          /\ DatabaseService_get_bill(1, now).items[k].name = "Widget"
          /\ DatabaseService_get_bill(1, now).items[k].price = 10

C7_FirstBillOfDayIsOne ==
    /\ (SQLite_reset_daily /\ SQLite_today_rows(now) = {}) =>
          \A req_products \in ValidItemLists :
              Route_validate(req_products) = 0 =>
                  /\ Route_create_bill(req_products, now).code = 201
                  /\ Route_create_bill(req_products, now).bill_no = 1
    /\ (DatabaseService_reset_daily /\ DatabaseService_today_rows(now) = {}) =>
          \A req_products \in ValidItemLists :
              Caller_validated(req_products) =>
                  DatabaseService_create_bill(Caller_bill_data(req_products), now).bill_no = 1

\* C8: a stored bill that is CANCELLED stays CANCELLED, and a bill is
\* CONFIRMED in the step that inserts it.
C8_StatusOnlyConfirmedToCancelled ==
    [][/\ \A i \in DOMAIN bills \cap DOMAIN bills' :
             bills[i].status = "CANCELLED" => bills'[i].status = "CANCELLED"
       /\ \A i \in DOMAIN bills' \ DOMAIN bills : bills'[i].status = "CONFIRMED"
       /\ \A i \in DOMAIN pg_bills \cap DOMAIN pg_bills' :
             pg_bills[i].status = "CANCELLED" => pg_bills'[i].status = "CANCELLED"
       /\ \A i \in DOMAIN pg_bills' \ DOMAIN pg_bills :
             pg_bills'[i].status = "CONFIRMED"]_vars

\* a cancelled bill followed by a bill inserted on a later instant
C8_Witness ==
    /\ Len(pg_bills) = 2
    /\ pg_bills[1].status = "CANCELLED"
    /\ pg_bills[2].status = "CONFIRMED"
    /\ pg_bills[2].created_at > pg_bills[1].created_at

\* C9: a CANCELLED bill is in no answer of getTodaysBills, getBillsByDate,
\* getBillsByDateRange and in no summary total, and it is in the answer of
\* the management accessor, called without a date and called with the
\* bill's date.
C9_CancelledOnlyInManagement ==
    /\ \A i \in DOMAIN bills :
          bills[i].status = "CANCELLED" =>
              /\ i \notin SQLite_get_todays_bills(now)
              /\ \A a \in Days, b \in Days :
                    i \notin SQLite_get_bills_by_date_range(a, b)
              /\ i \in Route_get_all_bills_management(NoDate)
              /\ i \in Route_get_all_bills_management(
                            local_date(bills[i].created_at))
    /\ \A i \in DOMAIN pg_bills :
          pg_bills[i].status = "CANCELLED" =>
              /\ i \notin DatabaseService_get_todays_bills(now)
              /\ \A a \in Days : i \notin DatabaseService_get_bills_by_date(a)
              /\ \A a \in Days, b \in Days :
                    i \notin DatabaseService_get_bills_by_date_range(a, b)
              /\ i \notin SummaryService_bills(now)
              /\ i \in DatabaseService_get_all_bills_management

\* C10: cancelBill(n) changes at most one bill, a bill of today numbered n,
\* and does not report success when today has no bill numbered n.
C10_CancelTouchesOnlyTodaysBill ==
    \A n \in BillNos :
        /\ \A i \in DOMAIN bills :
              SQLite_cancel_bill(n)[i] # bills[i] =>
                  /\ bills[i].bill_no = n
                  /\ local_date(bills[i].created_at) = local_date(now)
        /\ Cardinality({i \in DOMAIN bills :
                            SQLite_cancel_bill(n)[i] # bills[i]}) <= 1
        /\ SQLite_get_bill(n, now) = NoRow => Route_cancel_bill(n) # 200
        /\ \A row \in DatabaseService_cancel_bill_rows(n, now) :
              \A i \in DOMAIN pg_bills :
                  DatabaseService_cancel_bill(row)[i] # pg_bills[i] =>
                      /\ i = row
                      /\ pg_bills[i].bill_no = n
                      /\ local_date(pg_bills[i].created_at) = local_date(now)

\* C11: a cancelBill or updateBill step changes no inventory row: neither
\* stock nor max_stock_history.
C11_CancelUpdateKeepStock ==
    [][(\E n \in BillNos :
           \/ CancelBill(n)
           \/ DbCancelBill(n)
           \/ \E req_products \in UpdateItemLists :
                 UpdateBill(n, req_products) \/ DbUpdateBill(n, req_products))
       => inventory' = inventory]_vars

\* the only stored bill has deducted its A1 quantity and is cancelled, and
\* the stock is still the deducted one
C11_Witness ==
    /\ Len(pg_bills) = 1
    /\ issued = 1
    /\ pg_bills[1].status = "CANCELLED"
    /\ Sold(pg_bills[1].items, "A1") > 0
    /\ inventory[1].product_id = "A1"
    /\ inventory[1].stock = 5 - Sold(pg_bills[1].items, "A1")

\* C12: updateBill(n) changes at most one bill, today's bill numbered n,
\* and only if that bill is not CANCELLED; when today's bill n is CANCELLED
\* the request does not succeed.
C12_UpdateTouchesOnlyTargetBill ==
    \A n \in BillNos, req_products \in UpdateItemLists,
       total_amount \in RequestTotals :
        /\ \A i \in DOMAIN bills :
              Route_update_bill(n, req_products, total_amount).bills[i] # bills[i] =>
                  /\ bills[i].bill_no = n
                  /\ local_date(bills[i].created_at) = local_date(now)
                  /\ bills[i].status # "CANCELLED"
        /\ Cardinality({i \in DOMAIN bills :
                Route_update_bill(n, req_products, total_amount).bills[i]
                    # bills[i]}) <= 1
        /\ (SQLite_get_bill(n, now) # NoRow
              /\ SQLite_get_bill(n, now).status = "CANCELLED")
           => Route_update_bill(n, req_products, total_amount).code # 200
        /\ Caller_validated(req_products) =>
              \A row \in DatabaseService_update_bill_rows(n, now) :
                  \A i \in DOMAIN pg_bills :
                      DatabaseService_update_bill(row,
                              Caller_bill_data(req_products))[i] # pg_bills[i] =>
                          /\ i = row
                          /\ pg_bills[i].bill_no = n
                          /\ local_date(pg_bills[i].created_at) = local_date(now)
                          /\ pg_bills[i].status # "CANCELLED"

\* a request body createBill must reject
InvalidItems(req_products) ==
    \/ req_products = <<>>
    \/ \E k \in DOMAIN req_products :
          \/ req_products[k].quantity <= 0
          \/ req_products[k].product_id \notin ProductIds
          \/ products[req_products[k].product_id] = NoRow

C19_GetBillOnlyToday ==
    \A n \in BillNos :
        /\ SQLite_get_bill(n, now) # NoRow =>
              /\ SQLite_get_bill(n, now).bill_no = n
              /\ local_date(SQLite_get_bill(n, now).created_at) = local_date(now)
        /\ (\E i \in DOMAIN bills :
               /\ bills[i].bill_no = n
               /\ local_date(bills[i].created_at) = local_date(now))
           => SQLite_get_bill(n, now) # NoRow
        /\ DatabaseService_get_bill(n, now) # NoRow =>
              /\ DatabaseService_get_bill(n, now).bill_no = n
              /\ local_date(DatabaseService_get_bill(n, now).created_at)
                     = local_date(now)
        /\ (\E i \in DOMAIN pg_bills :
               /\ pg_bills[i].bill_no = n
               /\ local_date(pg_bills[i].created_at) = local_date(now))
           => DatabaseService_get_bill(n, now) # NoRow

\* bill 1 of an earlier day and bill 1 of today: getBill(1) is today's
C19_Witness ==
    /\ Len(bills) = 2
    /\ bills[1].bill_no = 1
    /\ bills[2].bill_no = 1
    /\ local_date(bills[1].created_at) < local_date(now)
    /\ local_date(bills[2].created_at) = local_date(now)
    /\ SQLite_get_bill(1, now) = bills[2]

\* C20: the number createBill gives is 1 + the largest bill_no among the
\* bills of the numbering scope (today's with daily reset, all otherwise)
\* that are not CANCELLED, 1 when there is none.
C20_NextBillNoSkipsCancelled ==
    /\ \A req_products \in ValidItemLists :
          Route_create_bill(req_products, now).code = 201 =>
              Route_create_bill(req_products, now).bill_no =
                  1 + Max({bills[i].bill_no :
                             i \in {j \in DOMAIN bills :
                                      /\ NotCancelled(bills[j])
                                      /\ (SQLite_reset_daily =>
                                            j \in SQLite_today_rows(now))}}
                          \cup {0})
    /\ \A req_products \in ValidItemLists :
          (Caller_validated(req_products)
             /\ DatabaseService_create_bill(Caller_bill_data(req_products), now)
                    .bill_no # 0)
          => DatabaseService_create_bill(Caller_bill_data(req_products), now)
                    .bill_no =
                  1 + Max({pg_bills[i].bill_no :
                             i \in {j \in DOMAIN pg_bills :
                                      /\ NotCancelled(pg_bills[j])
                                      /\ (DatabaseService_reset_daily =>
                                            j \in DatabaseService_today_rows(now))}}
                          \cup {0})

\* C21: whatever the printer does (prints, reports failure, raises), a
\* create request has the same outcome as without printing: the same bills
\* are stored, and a request that stored its bill is answered 201 with the
\* bill's number.
C21_PrinterFailureKeepsBill ==
    \A req_products \in ItemLists, printer \in PrinterOutcomes :
        /\ Route_create_bill_print(req_products, TRUE, printer, now)
               = Route_create_bill_print(req_products, FALSE, printer, now)
        /\ Route_create_bill_print(req_products, TRUE, printer, now).bills # bills
           => LET r == Route_create_bill_print(req_products, TRUE, printer, now)
              IN  /\ r.code = 201
                  /\ Len(r.bills) = Len(bills) + 1
                  /\ r.bills[Len(r.bills)].bill_no = r.bill_no

\* a bill is stored and a further request whose print_bill raises stores
\* its bill and is answered 201
C21_Witness ==
    /\ svc = "sqlite"
    /\ Len(bills) = 1
    /\ issued < MaxBills
    /\ Route_create_bill_print(<<Item("A1", 2)>>, TRUE, "raised", now).code = 201
    /\ Len(Route_create_bill_print(<<Item("A1", 2)>>, TRUE, "raised", now).bills) = 2

\* C22: a clearAllBills step leaves no bill, and the createBill step that
\* stores the first bill after it gives bill_no 1, with daily reset and
\* without.
C22_ClearThenFirstBillIsOne ==
    [][/\ ClearAllBills => bills' = <<>>
       /\ DbClearAllBills => pg_bills' = <<>>
       /\ (bills = <<>> /\ bills' # <<>>) =>
             /\ Len(bills') = 1
             /\ bills'[1].bill_no = 1
       /\ (pg_bills = <<>> /\ pg_bills' # <<>>) =>
             /\ Len(pg_bills') = 1
             /\ pg_bills'[1].bill_no = 1]_vars

\* the bills were cleared on a later day than the one bill was created on,
\* numbering is global, and the next bill is number 1
C22_Witness ==
    /\ svc = "sqlite"
    /\ bills = <<>>
    /\ issued = 1
    /\ now > 0
    /\ ~SQLite_reset_daily
    /\ Route_create_bill(<<Item("A1", 2)>>, now).code = 201
    /\ Route_create_bill(<<Item("A1", 2)>>, now).bill_no = 1

\* C23: when no bill was created in the scope of a summary (today, or a
\* given date), the summary has total_bills 0, total_sales 0,
\* average_bill_value 0, no category totals and no first and last bill
\* time, whatever bills exist on other days.
C23_EmptyScopeZeroSummary ==
    LET empty == [total_bills |-> 0, total_sales |-> 0,
                  category_totals |-> <<>>, first_bill_time |-> NoDate,
                  last_bill_time |-> NoDate, average_bill_value |-> 0]
    IN  /\ (\A i \in DOMAIN pg_bills :
                local_date(pg_bills[i].created_at) # local_date(now))
            => SummaryService_get_today_summary(now) = empty
        /\ \A target_date \in Days :
              (\A i \in DOMAIN pg_bills :
                  local_date(pg_bills[i].created_at) # target_date)
              => SummaryService_get_summary_for_date(target_date) = empty

\* C28: in every reachable state the number GET /api/bill/next-number
\* answers is the bill_no the next createBill is given when no other bill
\* operation happens in between.
C28_NextNumberIsNextBillNo ==
    \A req_products \in ValidItemLists :
        Route_create_bill(req_products, now).code = 201 =>
            Route_create_bill(req_products, now).bill_no
                = Route_get_next_bill_number(now)

\* ====================================================================
\* properties of bill edits (SpecEdit)
\* ====================================================================

\* C25: the total_amount of every stored bill is the sum of price * quantity
\* over its stored items, after createBill and after every updateBill.
C25_TotalIsSumOfLineTotals ==
    \A i \in DOMAIN bills :
        bills[i].total_amount = SumSeq(LineTotals(bills[i].items))

\* C30: every stored bill has a non-empty item list in which every quantity
\* is greater than 0, after any sequence of create and update requests.
C30_StoredItemsNonEmptyPositive ==
    \A i \in DOMAIN bills :
        /\ bills[i].items # <<>>
        /\ \A k \in DOMAIN bills[i].items : bills[i].items[k].quantity > 0

\* ====================================================================
\* properties of concurrent create requests (SpecConc)
\* ====================================================================

\* C1: no two stored bills created on the same local calendar day carry
\* the same bill_no, and while bill_reset_daily is false no two stored
\* bills at all carry the same bill_no, under every interleaving of the
\* statements of concurrent createBill calls.
C1_NoDuplicateBillNo ==
    /\ \A i \in DOMAIN bills, j \in DOMAIN bills :
          (i # j /\ (~SQLite_reset_daily
                     \/ local_date(bills[i].created_at)
                          = local_date(bills[j].created_at)))
          => bills[i].bill_no # bills[j].bill_no
    /\ \A i \in DOMAIN pg_bills, j \in DOMAIN pg_bills :
          (i # j /\ (~DatabaseService_reset_daily
                     \/ local_date(pg_bills[i].created_at)
                          = local_date(pg_bills[j].created_at)))
          => pg_bills[i].bill_no # pg_bills[j].bill_no

\* C2: with daily reset, when all the valid createBill calls of one local
\* day have returned (none of them cut short by a database outage), each
\* has a stored bill and the day's bill numbers are exactly 1..N.
C2_AllCallsStoredAndNumbered ==
    (/\ \A r \in Reqs :
           /\ req[r].pc = "done"
           /\ req[r].code \notin {400, 404}
           /\ req[r].ret # "aborted"
     /\ local_date(now) = local_date(0)
     /\ IF svc = "sqlite" THEN SQLite_reset_daily ELSE DatabaseService_reset_daily)
    => IF svc = "sqlite"
       THEN /\ Len(bills) = MaxReqs
            /\ {bills[i].bill_no : i \in DOMAIN bills} = 1..MaxReqs
       ELSE /\ Len(pg_bills) = MaxReqs
            /\ {pg_bills[i].bill_no : i \in DOMAIN pg_bills} = 1..MaxReqs

\* C3: the step in which a createBill call fails after validation changes
\* neither the stored bills nor any stored stock, and the stored stock
\* changes only in a step that also stores the bill: readers of the tables
\* never see a deduction without its bill.
C3_FailedCreateChangesNothing ==
    [][/\ inventory' # inventory => Len(pg_bills') = Len(pg_bills) + 1
       /\ \A r \in Reqs :
             (req[r].ret = "pending" /\ req'[r].ret \in {"failed", "aborted"})
             => /\ bills' = bills
                /\ pg_bills' = pg_bills
                /\ inventory' = inventory]_vars

\* a call has lost on idx_daily_bill_unique (after its session deducted
\* stock) while the winner's bill and deduction are stored
C3_Witness ==
    \E r \in Reqs :
        /\ svc = "sqlalchemy"
        /\ req[r].ret = "failed"
        /\ Len(pg_bills) = 1
        /\ inventory[1].stock < 5

\* C29: a create request that is answered with a failure has stored no
\* bill: a request whose INSERT was committed is answered 201.
C29_FailureAnswerMeansNoBill ==
    \A r \in Reqs :
        (svc = "sqlite" /\ req[r].pc = "done" /\ req[r].code # 201)
        => req[r].ret # "ok"

\* ====================================================================
\* properties of the inventory ledger (SpecInv)
\* ====================================================================

\* C14: while an inventory row is locked, an adjust, update or delete
\* request on it is answered 409 (Locked, not 404 or 400) and leaves the
\* row as it was, also when the product is deactivated between the
\* request's lock check and its service call; and the storage operations
\* themselves leave a locked row as it was.
C14_LockedRowRejectsWithLocked ==
    [][/\ \A op \in InventoryOps, item_id \in InventoryIds,
             adjustment \in Adjustments \cup {0},
             data \in InventoryUpdates \cup {NoRow} :
                (Inv_check(op, item_id, adjustment, data)
                    /\ DatabaseService_is_locked(item_id))
                => /\ inv_req'.code = 409
                   /\ inv_req'.pc = "idle"
                   /\ inventory' = inventory
       /\ (Inv_call /\ DatabaseService_is_locked(inv_req.id))
          => /\ inv_req'.code = 409
             /\ inventory'[inv_req.id] = inventory[inv_req.id]
       /\ \A item_id \in InventoryIds :
             DatabaseService_is_locked(item_id) =>
                /\ \A adjustment \in Adjustments :
                      DatabaseService_adjust_inventory_stock(item_id, adjustment)
                          .inventory = inventory
                /\ \A data \in InventoryUpdates :
                      DatabaseService_update_inventory(item_id, data)
                          .inventory = inventory
                /\ DatabaseService_delete_inventory_item(item_id).inventory
                       = inventory]_vars

\* C15: create_bill on a validated bill deducts the sold quantity from the
\* inventory row linked to the product also when that row is locked, and
\* stores the bill, while adjust_inventory_stock on the same row in the same
\* state is refused and the adjust request is answered 409.
C15_LockedRowStillDeducted ==
    [][\A id \in InventoryIds :
          (/\ pending # NoRow
           /\ pending' = NoRow
           /\ DatabaseService_is_locked(id)
           /\ Inventory_linked_rows(inventory, inventory[id].product_id) = {id})
          => /\ Len(pg_bills') = Len(pg_bills) + 1
             /\ inventory'[id].stock =
                    inventory[id].stock - Sold(pending.items, inventory[id].product_id)
             /\ \A adjustment \in Adjustments :
                   /\ ~DatabaseService_adjust_inventory_stock(id, adjustment).ok
                   /\ DatabaseService_adjust_inventory_stock(id, adjustment)
                          .inventory = inventory
             /\ InventoryRoute_lock_check(id) = 409]_vars

\* a validated bill selling A1 is about to be created while the row linked
\* to A1 is locked, and create_bill lowers that stock
C15_Witness ==
    /\ pending # NoRow
    /\ Sold(pending.items, "A1") > 0
    /\ DatabaseService_is_locked(1)
    /\ inventory[1].product_id = "A1"
    /\ Inventory_linked_rows(inventory, "A1") = {1}
    /\ DatabaseService_create_bill(pending, now).bill_no # 0
    /\ DatabaseService_create_bill(pending, now).inventory[1].stock
           = inventory[1].stock - Sold(pending.items, "A1")

\* C16: at most one inventory row has any given non-null product_id.
C16_OneRowPerProduct ==
    \A p \in ProductIds : Cardinality(Inventory_linked_rows(inventory, p)) <= 1

\* C17: max_stock_history of a row is at least max(10, stock) in every state
\* and no step lowers it; together: it never decreases and is at least
\* max(10, every stock the row has had).
C17_MaxStockHistoryIsHighWater ==
    /\ \A i \in InventoryIds :
          inventory[i] # NoRow =>
              inventory[i].max_stock_history
                  >= Max({DefaultMaxStockHistory, inventory[i].stock})
    /\ [][\A i \in InventoryIds :
             inventory'[i] # NoRow =>
                /\ inventory'[i].max_stock_history
                       >= Max({DefaultMaxStockHistory, inventory'[i].stock})
                /\ inventory[i] # NoRow =>
                       inventory'[i].max_stock_history
                           >= inventory[i].max_stock_history]_vars

\* a stock that was raised above 10 and then lowered by a sale
C17_Witness ==
    /\ inventory[1] # NoRow
    /\ inventory[1].max_stock_history > DefaultMaxStockHistory
    /\ inventory[1].stock < DefaultMaxStockHistory
    /\ pg_bills # <<>>

\* ====================================================================
\* properties of the category requests (SpecCat)
\* ====================================================================

\* C18: deleteCategory(c) removes the row only when no product references c
\* and no stored bill item names a product of c; otherwise c is kept with
\* active = false and the usage check reports used; a second deleteCategory
\* on a used category changes nothing more; and no product references a
\* category that has no row.
C18_DeleteCategoryOnlyWhenUnused ==
    [][/\ \A c \in CategoryIds :
             DeleteCategory(c) =>
                /\ categories'[c] = NoRow =>
                      /\ Category_products(c) = {}
                      /\ ~Category_in_bills(c)
                /\ (/\ categories[c] # NoRow
                    /\ (Category_products(c) # {} \/ Category_in_bills(c))) =>
                      /\ categories'[c] = [categories[c] EXCEPT !.active = FALSE]
                      /\ DatabaseService_is_category_used(c)
                      /\ CategoryRoute_delete_category(c).categories' = categories'
       /\ \A p \in ProductIds :
             (pg_products[p] # NoRow /\ pg_product_cat[p].category_id # NullId)
             => categories[pg_product_cat[p].category_id] # NoRow]_vars

\* the sum of the values of a function over the set S of its arguments
RECURSIVE SumOver(_, _)
SumOver(f, S) ==
    IF S = {} THEN 0
    ELSE LET c == CHOOSE x \in S : TRUE
         IN  f[c] + SumOver(f, S \ {c})

\* C26: in the summary, the bucket of the category a product has in the
\* catalogue at report time holds price * quantity of every line item of
\* the products of that category, for every product still in the catalogue,
\* active or not; and the buckets add up to the sum of all line totals.
C26_CategoryTotalsByCurrentCatalog ==
    LET rows == SummaryService_bills(now)
        items == SummaryService_items(rows)
        totals == SummaryService_calculate_category_totals(rows)
        bucket(c) == IF c \in DOMAIN totals THEN totals[c] ELSE 0
        expected(c) ==
            SumSeq([k \in DOMAIN items |->
                IF SummaryService_product_category_any(items[k].product_id) = c
                THEN items[k].price * items[k].quantity ELSE 0])
    IN  /\ \A p \in DatabaseService_get_all_products(TRUE) :
              bucket(SummaryService_product_category_any(p))
                  = expected(SummaryService_product_category_any(p))
        /\ SumOver(totals, DOMAIN totals) = SumSeq(LineTotals(items))

\* ====================================================================
\* properties of stock levels (SpecStock)
\* ====================================================================

\* C27: the item a GET of one inventory row returns carries a status that is
\* "Out of Stock" exactly when stock <= 0, "Low Stock" exactly when
\* 0 < stock <= alert_threshold and "In Stock" otherwise; and the
\* low-stock listing holds exactly the rows that are not locked and whose
\* status is "Low Stock" or "Out of Stock", whatever the sign of the stock
\* and of the threshold.
C27_StatusAndLowStockListing ==
    /\ \A i \in InventoryIds :
          inventory[i] # NoRow =>
              /\ Item_status(i) = "Out of Stock" <=> inventory[i].stock <= 0
              /\ Item_status(i) = "Low Stock"
                    <=> /\ 0 < inventory[i].stock
                        /\ inventory[i].stock <= inventory[i].alert_threshold
              /\ Item_status(i) = "In Stock"
                    <=> /\ 0 < inventory[i].stock
                        /\ inventory[i].stock > inventory[i].alert_threshold
    /\ DOMAIN DatabaseService_get_low_stock_products
          = {i \in InventoryIds :
                /\ inventory[i] # NoRow
                /\ ~DatabaseService_is_locked(i)
                /\ Inventory_status(inventory[i])
                       \in {"Low Stock", "Out of Stock"}}

\* ====================================================================
\* properties of the settings store (SpecSettings)
\* ====================================================================

\* the keys of a list, and the last entry a list holds for a key
SettingsListKeys(settings_list) ==
    {settings_list[n].key : n \in DOMAIN settings_list}
LastEntry(settings_list, key) ==
    settings_list[Max({n \in DOMAIN settings_list :
                          settings_list[n].key = key})]

\* the round trip of one list on a table before and after the call, read
\* with the default d
RoundTrip(before, after, settings_list, d) ==
    \A k \in StoreKeys :
        IF k \in SettingsListKeys(settings_list)
        THEN Settings_value(after, k, d)
                 = py_str(LastEntry(settings_list, k).value)
        ELSE /\ after[k] = before[k]
             /\ before[k] = NoRow => Settings_value(after, k, d) = d

\* C24: on both services, whatever the table holds, a bulk upsert of a list
\* leaves for every key of the list the string form of the last value the
\* list gives for it, leaves the row (value and group) of every other key
\* as it was, and reading a key that has no row gives the caller's default.
C24_SettingsRoundTrip ==
    \A settings_list \in SettingsLists, d \in Defaults :
        /\ RoundTrip(settings, SQLite_update_settings_bulk(settings_list),
                     settings_list, d)
        /\ RoundTrip(pg_settings,
                     DatabaseService_update_settings_bulk(settings_list),
                     settings_list, d)
        /\ \A k \in StoreKeys :
              settings[k] = NoRow => SQLite_get_setting(k, d) = d

\* a table a two-entry list of one key has been written to: the boolean of
\* the last entry is stored as 'True', the seeded key kept its row, and a
\* further list with two values for that key ends with the last of them
C24_Witness ==
    /\ svc = "sqlite"
    /\ settings["shop_tagline"] = Setting_row("True", "app")
    /\ settings["bill_reset_daily"] = Setting_row("None", "billing")
    /\ settings["printer_enabled"] = Setting_row("false", "printer")
    /\ SQLite_get_setting("shop_tagline", "0") = "True"
    /\ SQLite_update_settings_bulk(
           <<Setting("shop_tagline", Json("number", "5"), Null),
             Setting("shop_tagline", Json("null", "null"), Null)>>)
               ["shop_tagline"] = Setting_row("None", "app")

====
